---- MODULE Spec2Model ----
(***************************************************************************)
(* Verification model of jangwonboo/doc_processing.                        *)
(*                                                                         *)
(*  - SpecWorker: the GUI thread and the Worker thread of src/gui.py       *)
(*    (pause / resume / stop, the pause-wait loop, the three external      *)
(*    stage processes, cleanup_processes and stop_workflow).               *)
(*  - SpecMerge: the natural-order merge with repair of src/img_to_pdf.py  *)
(*    (natural_sort_key, merge_pdfs, repair_corrupted_pdf,                 *)
(*    merge_text_files).                                                   *)
(*  - SpecText: merge_text_files called on text files of any encoding.     *)
(***************************************************************************)
EXTENDS Integers, Sequences, FiniteSets, TLC

(* ------------------------------------------------------------------ *)
(* Bounds of the model                                                 *)
(* ------------------------------------------------------------------ *)

\* how many times the Pause/Resume button is pressed in one run
MaxToggles == 2

\* how many per-page files one merge is given
MaxPages == 3

\* how many Workers the GUI creates in one session
MaxWorkers == 3

\* the largest value of the page spin boxes
MaxSpin == 2

\* the largest page number of a run.py page range
MaxEnd == 3

\* how many times run.py is run on one output directory
MaxRuns == 3

\* how many images the directory given to img_to_pdf.py holds
MaxImages == 2

\* how many times img_to_pdf.py is run on one directory
MaxDirRuns == 2

\* how many chunks the response stream delivers at most
MaxChunks == 3

\* how many "text" matches the salvage finds in the raw response at most
MaxMatches == 2

\* the largest value a spin box of the settings model takes
MaxValue == 3

\* the largest page number of a capture job
MaxCapture == 3

(* ------------------------------------------------------------------ *)
(* State                                                               *)
(* ------------------------------------------------------------------ *)

VARIABLES
  \* ---- Worker (src/gui.py) ----
  params,           \* self.params: which stages are enabled
  is_paused,        \* self._is_paused
  is_running,       \* self._is_running
  lock,             \* self._lock: "free", "gui" or "worker"
  processes,        \* self.processes: the list cleanup_processes iterates
  proc,             \* state of the external process of each stage
  termSent,         \* processes that were sent terminate()
  killSent,         \* processes that were sent kill()
  wpc,              \* position of the worker thread in run()
  stage,            \* the stage the worker thread is in
  started,          \* stages started so far, in order
  sig,              \* signals emitted by the Worker object (counts)
  gpc,              \* position of the GUI thread
  gi,               \* index of cleanup_processes' for loop
  toggles,          \* presses of the Pause/Resume button so far
  workflow_running, \* DocumentProcessorGUI.workflow_running
  workflow_paused,  \* DocumentProcessorGUI.workflow_paused
  pendingFinished,  \* finished_signal queued for the GUI thread
  stopIssued,       \* history: stop() has written the flags
  stopPaused,       \* history: stop() wrote the flags while the worker waited in _check_pause
  stopReturned,     \* history: stop() has returned
  afterStop,        \* history: stages started after stop() wrote the flags
  lateCall,         \* history: pause(), resume() or stop() ran on a worker whose run() had ended
  cleanErr,         \* history: processes at which cleanup_processes caught an exception
  \* ---- merge (src/img_to_pdf.py) ----
  files,            \* the input list of page names (pdf_files / text_files)
  pdf,              \* content of <page>.pdf
  txt,              \* content of <page>.txt
  bak,              \* content of <page>.pdf.backup
  txtbak,           \* content of <page>.txt.backup
  image,            \* does the same-stem image exist: "unknown", "yes", "no"
  mpc,              \* position in merge_pdfs / repair_corrupted_pdf / merge_text_files
  order,            \* sorted(pdf_files, key=natural_sort_key)
  idx,              \* loop index into order
  merger,           \* pages appended to the PdfMerger, in order
  successful_merges,
  failed_files,
  repaired_files,
  result,           \* return value of merge_pdfs: "unset", "path" or "None"
  mergedPdf,        \* the merged PDF file
  mergedTxt,        \* what merge_text_files wrote, one entry per input file
  raised,           \* an exception left merge_text_files
  repairRet,        \* return value of the last repair_corrupted_pdf call
  entry,            \* history: content at the PDF path when repair_corrupted_pdf was entered
  pdf0,             \* history: content of every page PDF when merge_pdfs was called
  ocr,              \* history: what run_tesseract did for each page in this merge
  writeFailed,      \* history: merger.write raised
  \* ---- DocumentProcessorGUI and its worker threads (src/gui.py) ----
  spinStart,        \* startSpinBox.value()
  spinEnd,          \* noSpinBox.value()
  threads,          \* the QThread of every Worker created so far: its state
  curWorker,        \* self.worker: index into threads, 0 for None
  guiRunning,       \* self.workflow_running
  guiPaused,        \* self.workflow_paused
  runEnabled,       \* runButton.isEnabled()
  finQueue,         \* finished_signal emissions queued for the GUI thread
  \* ---- run.py and the output directory output/<title> ----
  rStart,           \* args.start
  rEnd,             \* args.end
  pngs,             \* the pages whose screenshot <title>_<page>.png exists
  hasPdf,           \* <title>.pdf exists
  hasTxt,           \* <title>.txt exists
  hasBasic,         \* <title>_basic.md exists
  hasNewneek,       \* <title>_newneek.md exists
  rpc,              \* position in main() of run.py
  runs,             \* runs of run.py started so far
  skipped,          \* history, per stage of this run: "unset", "yes" (skipped), "no" (invoked)
  present,          \* history, per stage: its expected outputs were all there when main() reached it
  outcome,          \* history, per stage of this run: "unset", "ok", "noOutput", "fail"
  prevClean,        \* history: in the previous run every stage was invoked and succeeded
  rExit,            \* exit status of this run of run.py: "none", "zero", "nonzero"
  prevOutcome,      \* history, per stage: its outcome in the previous run
  \* ---- a directory run of img_to_pdf.py (main) ----
  dImages,          \* image_files: the images of the input directory
  dPagePdf,         \* per image: <stem>.pdf exists in the output directory
  dPageTxt,         \* per image: <stem>.txt exists in the output directory
  dMergedPdf,       \* merged_pdf_path exists
  dMergedTxt,       \* merged_text_path exists
  dpc,              \* position in main()
  dTodo,            \* images the for loop has not handled yet
  dRuns,            \* directory runs started so far
  ocrRuns,          \* history: run_tesseract calls of this run
  repairs,          \* history: repair_corrupted_pdf calls of this run
  mergeCalls,       \* history: merge_pdfs calls of this run
  textCalls,        \* history: merge_text_files calls of this run
  fileOps,          \* history: files created, modified or deleted by this run
  dir0,             \* history: the files of the directory when this run started
  generated_pdfs,   \* generated_pdfs / generated_texts: the images whose paths were appended
  ocrCalled,        \* history: the images run_tesseract was called for in this run
  mergeArg,         \* history: the list handed to merge_pdfs in this run
  \* ---- TextExtractor.process_file (src/input_to_txt.py) ----
  epc,              \* position in process_file
  isPdf,            \* mime_type == 'application/pdf'
  tempExists,       \* the temporary text file of the PDF branch exists
  remote,           \* the uploaded file exists at the API
  hasId,            \* hasattr(uploaded_file, 'id')
  out,              \* what was written to output_path, in order ("none": not opened)
  content_saved,    \* the local content_saved
  chunks,           \* chunks read from the response so far
  jsonErr,          \* history: the stream raised json.JSONDecodeError
  salvageTried,     \* history: the raw-response fallback was entered
  uploadedOnce,     \* history: client.files.upload returned
  \* ---- settings of the GUI (src/gui.py) ----
  widget,           \* field name -> value the widget holds
  settingsFile,     \* the file at SETTINGS_PATH: [st, keys, data]
  snapshot,         \* history: the widget values at the last successful save
  lastOp,           \* history: the last operation on the settings
  \* ---- the capture loop of scr_to_img.py ----
  argStart,         \* args.start
  argEnd,           \* args.end
  argNext,          \* args.next is a non-empty string
  ci,               \* the loop variable i
  cpc,              \* position in main: "activate", "capture", "next", "done", "exit1"
  captured,         \* history: the page numbers capture_window was called for, in order
  keysSent,         \* history: how many next-page keys were sent to System Events
  actFailed,        \* history: an activation of the window failed
  capturedAtFail    \* history: Len(captured) when an activation first failed

wvars == <<params, is_paused, is_running, lock, processes, proc, termSent, killSent,
           wpc, stage, started, sig, gpc, gi, toggles, workflow_running,
           workflow_paused, pendingFinished, stopIssued, stopPaused, stopReturned,
           afterStop, lateCall, cleanErr>>

mvars == <<files, pdf, txt, bak, txtbak, image, mpc, order, idx, merger,
           successful_merges, failed_files, repaired_files, result, mergedPdf,
           mergedTxt, raised, repairRet, entry, pdf0, ocr, writeFailed>>

lvars == <<spinStart, spinEnd, threads, curWorker, guiRunning, guiPaused, runEnabled,
           finQueue>>

rvars == <<rStart, rEnd, pngs, hasPdf, hasTxt, hasBasic, hasNewneek, rpc, runs,
           skipped, present, outcome, prevClean, rExit, prevOutcome>>

dvars == <<dImages, dPagePdf, dPageTxt, dMergedPdf, dMergedTxt, dpc, dTodo, dRuns,
           ocrRuns, repairs, mergeCalls, textCalls, fileOps, dir0,
           generated_pdfs, ocrCalled, mergeArg>>

evars == <<epc, isPdf, tempExists, remote, hasId, out, content_saved, chunks, jsonErr,
           salvageTried, uploadedOnce>>

svars == <<widget, settingsFile, snapshot, lastOp>>

cvars == <<argStart, argEnd, argNext, ci, cpc, captured, keysSent, actFailed,
           capturedAtFail>>

vars == <<wvars, mvars, lvars, rvars, dvars, evars, svars, cvars>>

\* what the actions of one part leave alone: the variables of the other parts
otherThanWorker == <<mvars, lvars, rvars, dvars, evars, svars, cvars>>
otherThanMerge == <<wvars, lvars, rvars, dvars, evars, svars, cvars>>
otherThanGui == <<wvars, mvars, rvars, dvars, evars, svars, cvars>>
otherThanRun == <<wvars, mvars, lvars, dvars, evars, svars, cvars>>
otherThanDir == <<wvars, mvars, lvars, rvars, evars, svars, cvars>>
otherThanExtract == <<wvars, mvars, lvars, rvars, dvars, svars, cvars>>
otherThanSettings == <<wvars, mvars, lvars, rvars, dvars, evars, cvars>>
otherThanCapture == <<wvars, mvars, lvars, rvars, dvars, evars, svars>>

(* ================================================================== *)
(*                      WORKER  (src/gui.py)                           *)
(* ================================================================== *)

ProcStages == {"capture", "pdf", "ocr"}

\* positions of the worker thread inside _check_pause after it has seen
\* _is_paused = True at least once: it is waiting
PausedPcs == {"cpw_sleep", "cpw_lock2", "cpw_read2", "cpw_lock1", "cpw_read1"}

EndPcs == {"done", "killed"}

\* Worker.__init__
WorkerInit(p) ==
  /\ params = p
  /\ processes = <<>>
  /\ is_paused = FALSE
  /\ is_running = TRUE
  /\ lock = "free"
  /\ proc = [s \in ProcStages |-> "none"]
  /\ termSent = {}
  /\ killSent = {}
  /\ wpc = "idle"
  /\ stage = "none"
  /\ started = <<>>
  /\ sig = [log |-> 0, finished |-> 0, error |-> 0]

\* the state start_workflow leaves behind: flags set, buttons enabled, thread started
GuiInit ==
  /\ gpc = "idle"
  /\ gi = 1
  /\ toggles = 0
  /\ workflow_running = TRUE
  /\ workflow_paused = FALSE
  /\ pendingFinished = FALSE
  /\ stopIssued = FALSE
  /\ stopPaused = FALSE
  /\ stopReturned = FALSE
  /\ afterStop = {}
  /\ lateCall = FALSE
  /\ cleanErr = {}

ParamSets == [capture : BOOLEAN, pdf : BOOLEAN, ocr : BOOLEAN, docx : BOOLEAN]

\* where run() goes when it reaches `if self.params['ocr']`
EnterOcr ==
  IF params.ocr THEN [pc |-> "spawn", st |-> "ocr"]
                ELSE [pc |-> "finish", st |-> "none"]

\* where run() goes when it reaches `if self.params['pdf']`
EnterPdf ==
  IF params.pdf THEN [pc |-> "spawn", st |-> "pdf"] ELSE EnterOcr

\* where run() goes when it reaches `if self.params['capture']`
EnterCapture ==
  IF params.capture THEN [pc |-> "cp_lock", st |-> "capture"] ELSE EnterPdf

\* the statement following the block of stage s when its process exited with 0
AfterStage(s) ==
  IF s = "capture" THEN EnterPdf
  ELSE IF s = "pdf" THEN EnterOcr
  ELSE [pc |-> "finish", st |-> "none"]

Emit(name) == [sig EXCEPT ![name] = @ + 1]

gvarsQuiet == <<gpc, gi, toggles, workflow_running, workflow_paused, stopIssued,
                stopPaused, stopReturned, lateCall, cleanErr>>

\* QMutex.lock() of the worker thread; blocks while the GUI thread holds it
WLock(from, to) ==
  /\ wpc = from
  /\ lock = "free"
  /\ lock' = "worker"
  /\ wpc' = to
  /\ UNCHANGED <<params, is_paused, is_running, processes, proc, termSent, killSent,
                 stage, started, sig, pendingFinished, afterStop>>
  /\ UNCHANGED gvarsQuiet

\* the thread enters run(): lock for the first check of _is_running
RunBegin == WLock("idle", "run_read")

\* run(): if not self._is_running: unlock; return
RunCheck ==
  /\ wpc = "run_read"
  /\ lock' = "free"
  /\ IF is_running
       THEN /\ wpc' = EnterCapture.pc
            /\ stage' = EnterCapture.st
       ELSE /\ wpc' = "done"
            /\ stage' = "none"
  /\ UNCHANGED <<params, is_paused, is_running, processes, proc, termSent, killSent,
                 started, sig, pendingFinished, afterStop>>
  /\ UNCHANGED gvarsQuiet

\* _check_pause: the lock() at the top of the loop (first pass and later passes)
CheckPauseLock == WLock("cp_lock", "cp_read") \/ WLock("cpw_lock1", "cpw_read1")

\* the value _check_pause returns when it finds _is_paused False: True
PauseClearedPc == "spawn"

\* _check_pause: if not self._is_paused: unlock; return True  -- else unlock and sleep
CheckPauseRead ==
  /\ wpc \in {"cp_read", "cpw_read1"}
  /\ lock' = "free"
  /\ wpc' = IF is_paused THEN "cpw_sleep" ELSE PauseClearedPc
  /\ UNCHANGED <<params, is_paused, is_running, processes, proc, termSent, killSent,
                 stage, started, sig, pendingFinished, afterStop>>
  /\ UNCHANGED gvarsQuiet

\* _check_pause: self.msleep(100)
CheckPauseSleep ==
  /\ wpc = "cpw_sleep"
  /\ wpc' = "cpw_lock2"
  /\ UNCHANGED <<params, is_paused, is_running, lock, processes, proc, termSent,
                 killSent, stage, started, sig, pendingFinished, afterStop>>
  /\ UNCHANGED gvarsQuiet

\* _check_pause: the lock() before the check of _is_running
CheckStopLock == WLock("cpw_lock2", "cpw_read2")

\* _check_pause: if not self._is_running: unlock; return False (run() returns)
CheckStopRead ==
  /\ wpc = "cpw_read2"
  /\ lock' = "free"
  /\ IF is_running
       THEN /\ wpc' = "cpw_lock1"
            /\ stage' = stage
       ELSE /\ wpc' = "done"
            /\ stage' = "none"
  /\ UNCHANGED <<params, is_paused, is_running, processes, proc, termSent, killSent,
                 started, sig, pendingFinished, afterStop>>
  /\ UNCHANGED gvarsQuiet

\* what run() records of a stage it starts
StartedAfter(s) == Append(started, s)

\* log_signal.emit('[n/3] ...'); process = subprocess.Popen(cmd, ...)
\* Popen may raise (the except clause of run() then emits error_signal)
Spawn ==
  /\ wpc = "spawn"
  /\ stage \in ProcStages
  /\ \/ /\ proc' = [proc EXCEPT ![stage] = "running"]
        /\ started' = StartedAfter(stage)
        /\ afterStop' = IF stopIssued THEN afterStop \cup {stage} ELSE afterStop
        /\ sig' = Emit("log")
        /\ wpc' = "append"
        /\ stage' = stage
     \/ /\ sig' = [sig EXCEPT !.log = @ + 1, !.error = @ + 1]
        /\ wpc' = "done"
        /\ stage' = "none"
        /\ UNCHANGED <<proc, started, afterStop>>
  /\ UNCHANGED <<params, is_paused, is_running, lock, processes, termSent, killSent,
                 pendingFinished>>
  /\ UNCHANGED gvarsQuiet

\* self.processes.append(process)
AppendProcess ==
  /\ wpc = "append"
  /\ processes' = Append(processes, stage)
  /\ wpc' = "communicate"
  /\ UNCHANGED <<params, is_paused, is_running, lock, proc, termSent, killSent, stage,
                 started, sig, pendingFinished, afterStop>>
  /\ UNCHANGED gvarsQuiet

\* a run() that would go on with the next stage after error_signal (the
\* `return` of lines 149/167/186 left out)
AfterFailureFallsThrough(s) == AfterStage(s)

\* where run() goes after error_signal.emit(result.stderr): return
AfterFailure(s) == [pc |-> "done", st |-> "none"]

\* a run() that would not look at the return code
AnyReturnCode(s) == TRUE

\* the return code of an exited process is 0
ReturnedZero(s) == proc[s] = "exit0"

\* process.communicate() returns; log_signal.emit(stdout); returncode != 0 -> error_signal, return.
\* After the OCR stage: if params.get('docx') and os.path.exists(output_txt) -> DOCX block
Communicate ==
  /\ wpc = "communicate"
  /\ proc[stage] \notin {"none", "running"}
  /\ IF ReturnedZero(stage)
       THEN /\ sig' = Emit("log")
            /\ \/ /\ wpc' = AfterStage(stage).pc
                  /\ stage' = AfterStage(stage).st
                  /\ stage = "ocr" => ~params.docx
                  /\ UNCHANGED <<started, afterStop>>
               \/ /\ stage = "ocr" /\ params.docx
                  /\ \E exists \in BOOLEAN :
                       IF exists
                         THEN /\ wpc' = "docx"
                              /\ stage' = "docx"
                              /\ started' = StartedAfter("docx")
                              /\ afterStop' = IF stopIssued THEN afterStop \cup {"docx"}
                                                            ELSE afterStop
                         ELSE /\ wpc' = "finish"
                              /\ stage' = "none"
                              /\ UNCHANGED <<started, afterStop>>
       ELSE /\ sig' = [sig EXCEPT !.log = @ + 1, !.error = @ + 1]
            /\ wpc' = AfterFailure(stage).pc
            /\ stage' = AfterFailure(stage).st
            /\ UNCHANGED <<started, afterStop>>
  /\ UNCHANGED <<params, is_paused, is_running, lock, processes, proc, termSent,
                 killSent, pendingFinished>>
  /\ UNCHANGED gvarsQuiet

\* the DOCX block: log '[4/4]', build and save the document, log; on an exception log and return
Docx ==
  /\ wpc = "docx"
  /\ \/ /\ sig' = [sig EXCEPT !.log = @ + 2]
        /\ wpc' = "finish"
     \/ /\ sig' = [sig EXCEPT !.log = @ + 2]
        /\ wpc' = "done"
  /\ stage' = "none"
  /\ UNCHANGED <<params, is_paused, is_running, lock, processes, proc, termSent,
                 killSent, started, pendingFinished, afterStop>>
  /\ UNCHANGED gvarsQuiet

\* self.finished_signal.emit(); run() returns
Finish ==
  /\ wpc = "finish"
  /\ sig' = Emit("finished")
  /\ pendingFinished' = TRUE
  /\ wpc' = "done"
  /\ UNCHANGED <<params, is_paused, is_running, lock, processes, proc, termSent,
                 killSent, stage, started, afterStop>>
  /\ UNCHANGED gvarsQuiet

\* an external process ends on its own (return code 0 or not), or, once it
\* was sent terminate(), by the signal
ProcExit ==
  /\ \E s \in ProcStages :
       /\ proc[s] = "running"
       /\ \E how \in {"exit0", "exitErr", "signaled"} :
            /\ how = "signaled" => s \in termSent
            /\ proc' = [proc EXCEPT ![s] = how]
  /\ UNCHANGED <<params, is_paused, is_running, lock, processes, termSent, killSent,
                 wpc, stage, started, sig, pendingFinished, afterStop>>
  /\ UNCHANGED gvarsQuiet

(* ------------------------- GUI thread ------------------------------ *)

wvarsQuiet == <<params, processes, proc, termSent, killSent, stage, started,
                pendingFinished, afterStop, cleanErr>>

\* toggle_pause -> Worker.pause() / Worker.resume(): self._lock.lock().
\* The button is enabled while workflow_running (update_ui_state).
TogglePause ==
  /\ gpc = "idle"
  /\ workflow_running
  /\ toggles < MaxToggles
  /\ lock = "free"
  /\ lock' = "gui"
  /\ gpc' = "toggle_set"
  /\ UNCHANGED <<is_paused, is_running, wpc, sig, gi, toggles, workflow_running,
                 workflow_paused, stopIssued, stopPaused, stopReturned, lateCall>>
  /\ UNCHANGED wvarsQuiet

\* pause(): _is_paused = True / resume(): _is_paused = False; unlock; log_signal.emit
\* toggle_pause then flips workflow_paused
ToggleSet ==
  /\ gpc = "toggle_set"
  /\ is_paused' = ~workflow_paused
  /\ workflow_paused' = ~workflow_paused
  /\ lock' = "free"
  /\ sig' = Emit("log")
  /\ toggles' = toggles + 1
  /\ gpc' = "idle"
  /\ lateCall' = (lateCall \/ wpc \in EndPcs)
  /\ UNCHANGED <<is_running, wpc, gi, workflow_running, stopIssued, stopPaused,
                 stopReturned>>
  /\ UNCHANGED wvarsQuiet

\* stop_workflow (reply Yes) -> Worker.stop(): self._lock.lock()
StopLock ==
  /\ gpc = "idle"
  /\ workflow_running
  /\ lock = "free"
  /\ lock' = "gui"
  /\ gpc' = "stop_set"
  /\ UNCHANGED <<is_paused, is_running, wpc, sig, gi, toggles, workflow_running,
                 workflow_paused, stopIssued, stopPaused, stopReturned, lateCall>>
  /\ UNCHANGED wvarsQuiet

\* stop(): _is_running = False; _is_paused = False; unlock; log_signal.emit; cleanup_processes()
StopSet ==
  /\ gpc = "stop_set"
  /\ is_running' = FALSE
  /\ is_paused' = FALSE
  /\ lock' = "free"
  /\ sig' = Emit("log")
  /\ stopIssued' = TRUE
  /\ stopPaused' = (wpc \in PausedPcs)
  /\ gpc' = "cleanup"
  /\ gi' = 1
  /\ lateCall' = (lateCall \/ wpc \in EndPcs)
  /\ UNCHANGED <<wpc, toggles, workflow_running, workflow_paused, stopReturned>>
  /\ UNCHANGED wvarsQuiet

\* cleanup_processes: one pass of `for process in self.processes`:
\* poll() is None -> terminate(), then wait(timeout=2); an exception of
\* terminate() is logged and the loop goes on with the next process; the loop
\* ends when the index reaches the current length of the list
CleanupPoll ==
  /\ gpc = "cleanup"
  /\ IF gi > Len(processes)
       THEN /\ gpc' = "thread_wait"
            /\ stopReturned' = TRUE
            /\ UNCHANGED <<gi, termSent, cleanErr>>
       ELSE IF proc[processes[gi]] = "running"
         THEN \/ /\ termSent' = termSent \cup {processes[gi]}
                 /\ gpc' = "cleanup_wait"
                 /\ UNCHANGED <<gi, stopReturned, cleanErr>>
              \/ /\ cleanErr' = cleanErr \cup {processes[gi]}
                 /\ gi' = gi + 1
                 /\ UNCHANGED <<gpc, termSent, stopReturned>>
         ELSE /\ gi' = gi + 1
              /\ UNCHANGED <<gpc, termSent, stopReturned, cleanErr>>
  /\ UNCHANGED <<params, is_paused, is_running, lock, processes, proc, killSent, wpc,
                 stage, started, sig, toggles, workflow_running, workflow_paused,
                 pendingFinished, stopIssued, stopPaused, afterStop, lateCall>>

\* a cleanup that kills without regard to the outcome of the wait
GraceIgnored(p) == TRUE

\* process.wait(timeout=2) raises TimeoutExpired: the process has not exited
TimeoutExpired(p) == proc[p] = "running"

\* cleanup_processes: process.wait(timeout=2) returns, or TimeoutExpired ->
\* process.kill(); kill() on a process that has exited sends nothing; an
\* exception of kill() is logged
CleanupWait ==
  /\ gpc = "cleanup_wait"
  /\ IF TimeoutExpired(processes[gi])
       THEN \/ /\ killSent' = killSent \cup {processes[gi]}
               /\ proc' = IF proc[processes[gi]] = "running"
                            THEN [proc EXCEPT ![processes[gi]] = "killed"]
                            ELSE proc
               /\ UNCHANGED cleanErr
            \/ /\ cleanErr' = cleanErr \cup {processes[gi]}
               /\ UNCHANGED <<proc, killSent>>
       ELSE UNCHANGED <<proc, killSent, cleanErr>>
  /\ gi' = gi + 1
  /\ gpc' = "cleanup"
  /\ UNCHANGED <<params, is_paused, is_running, lock, processes, termSent, wpc, stage,
                 started, sig, toggles, workflow_running, workflow_paused,
                 pendingFinished, stopIssued, stopPaused, stopReturned, afterStop,
                 lateCall>>

\* the worker thread is inside a call that can outlast the 2000 ms of
\* QThread.wait: communicate() on a live process, or the DOCX conversion
\* (the lock operations and msleep(100) of the other positions cannot)
Blocked ==
  \/ wpc = "communicate" /\ proc[stage] = "running"
  \/ wpc = "docx"

\* stop_workflow after stop(): quit(); wait(2000); if isRunning(): terminate(); wait();
\* then workflow_running = workflow_paused = False
ThreadWait ==
  /\ gpc = "thread_wait"
  /\ wpc \in EndPcs \/ Blocked
  /\ wpc' = IF wpc \in EndPcs THEN wpc ELSE "killed"
  /\ stage' = IF wpc \in EndPcs THEN stage ELSE "none"
  /\ workflow_running' = FALSE
  /\ workflow_paused' = FALSE
  /\ gpc' = "idle"
  /\ UNCHANGED <<params, is_paused, is_running, lock, processes, proc, termSent,
                 killSent, started, sig, gi, toggles, pendingFinished, stopIssued,
                 stopPaused, stopReturned, afterStop, lateCall, cleanErr>>

\* on_workflow_finished: the slot of finished_signal, run by the GUI event loop
OnWorkflowFinished ==
  /\ gpc = "idle"
  /\ pendingFinished
  /\ pendingFinished' = FALSE
  /\ workflow_running' = FALSE
  /\ workflow_paused' = FALSE
  /\ UNCHANGED <<params, is_paused, is_running, lock, processes, proc, termSent,
                 killSent, wpc, stage, started, sig, gpc, gi, toggles, stopIssued,
                 stopPaused, stopReturned, afterStop, lateCall, cleanErr>>

(* ================================================================== *)
(*                   MERGE  (src/img_to_pdf.py)                        *)
(* ================================================================== *)

(* ---------------- file names and natural_sort_key ------------------ *)

Digits == {"0", "1", "2", "3", "4", "5", "6", "7", "8", "9"}

\* ord(c) of the characters that occur in the names of the model
Code(c) ==
  CASE c = "." -> 46
    [] c = "0" -> 48 [] c = "1" -> 49 [] c = "2" -> 50 [] c = "3" -> 51
    [] c = "4" -> 52 [] c = "5" -> 53 [] c = "6" -> 54 [] c = "7" -> 55
    [] c = "8" -> 56 [] c = "9" -> 57
    [] c = "P" -> 80 [] c = "_" -> 95
    [] c = "d" -> 100 [] c = "f" -> 102 [] c = "p" -> 112
    [] c = "t" -> 116 [] c = "x" -> 120

\* str.lower() on one character
Lower(c) == IF c = "P" THEN "p" ELSE c

\* the page names (stems) a merge may be given, as character sequences:
\* p1, p2, p9, p10
NamePool ==
  { <<"p", "1">>, <<"p", "2">>, <<"p", "9">>, <<"p", "1", "0">> }

PdfSuffix == <<".", "p", "d", "f">>
TxtSuffix == <<".", "t", "x", "t">>

\* re.split(r'(\d+)', text): the text cut into alternating runs of non-digits
\* and digits, starting (and ending) with a run of non-digits that may be empty
RECURSIVE SplitFrom(_, _, _)
SplitFrom(text, parts, inDigits) ==
  IF text = <<>>
    THEN (IF inDigits THEN Append(parts, <<>>) ELSE parts)
    ELSE IF (Head(text) \in Digits) = inDigits
      THEN SplitFrom(Tail(text),
                     [parts EXCEPT ![Len(parts)] = Append(@, Head(text))], inDigits)
      ELSE SplitFrom(Tail(text), Append(parts, <<Head(text)>>), ~inDigits)

ReSplit(text) == SplitFrom(text, << <<>> >>, FALSE)

\* int(part) for a run of decimal digits
RECURSIVE ToInt(_)
ToInt(ds) ==
  IF ds = <<>> THEN 0 ELSE 10 * ToInt(SubSeq(ds, 1, Len(ds) - 1)) + (Code(ds[Len(ds)]) - 48)

\* part.isdigit()
IsDigitStr(part) == part # <<>> /\ \A i \in 1..Len(part) : part[i] \in Digits

\* the key element of a plain lexical sort: part.lower() for every part, no int()
KeyPartLexical(part) ==
  [isnum |-> FALSE, num |-> 0, str |-> [i \in 1..Len(part) |-> Lower(part[i])]]

\* one element of the key: int(part) if part.isdigit() else part.lower()
KeyPart(part) ==
  IF IsDigitStr(part)
    THEN [isnum |-> TRUE, num |-> ToInt(part), str |-> <<>>]
    ELSE [isnum |-> FALSE, num |-> 0, str |-> [i \in 1..Len(part) |-> Lower(part[i])]]

\* natural_sort_key(path) for path.name = text
natural_sort_key(text) ==
  [i \in 1..Len(ReSplit(text)) |-> KeyPart(ReSplit(text)[i])]

\* Python's < on two str values (by code point, a proper prefix is smaller)
RECURSIVE StrLess(_, _)
StrLess(a, b) ==
  IF b = <<>> THEN FALSE
  ELSE IF a = <<>> THEN TRUE
  ELSE IF Code(Head(a)) # Code(Head(b)) THEN Code(Head(a)) < Code(Head(b))
  ELSE StrLess(Tail(a), Tail(b))

\* Python's < on two key elements; the elements at one index of two keys are
\* both int or both str, because the runs alternate starting with a str
PartLess(x, y) ==
  IF x.isnum /\ y.isnum THEN x.num < y.num
  ELSE IF ~x.isnum /\ ~y.isnum THEN StrLess(x.str, y.str)
  ELSE x.isnum

\* Python's < on two lists
RECURSIVE KeyLess(_, _)
KeyLess(k1, k2) ==
  IF k2 = <<>> THEN FALSE
  ELSE IF k1 = <<>> THEN TRUE
  ELSE IF Head(k1) # Head(k2) THEN PartLess(Head(k1), Head(k2))
  ELSE KeyLess(Tail(k1), Tail(k2))

\* the key a page is sorted by: natural_sort_key of the name of its file
\* (the stem followed by the suffix, ".pdf" in merge_pdfs and ".txt" in
\* merge_text_files)
FileKey(n, suffix) == natural_sort_key(n \o suffix)

\* sorted() is stable: x goes behind every element whose key is not greater
RECURSIVE InsertByKey(_, _, _)
InsertByKey(sorted, x, suffix) ==
  IF sorted = <<>> THEN <<x>>
  ELSE IF KeyLess(FileKey(x, suffix), FileKey(Head(sorted), suffix))
    THEN <<x>> \o sorted
    ELSE <<Head(sorted)>> \o InsertByKey(Tail(sorted), x, suffix)

\* sorted(list, key=natural_sort_key) for the files stem + suffix
RECURSIVE SortedBy(_, _)
SortedBy(list, suffix) ==
  IF list = <<>> THEN <<>>
  ELSE InsertByKey(SortedBy(SubSeq(list, 1, Len(list) - 1), suffix),
                   list[Len(list)], suffix)

(* ------------------------- file contents --------------------------- *)

\* a PDF file: q is "none" (no file), "good" (opens and can be appended),
\* "half" (check_pdf_integrity passes, PdfMerger.append fails), "bad" (corrupt);
\* gen is 0 for a file that was there before the merge and 1 for a file
\* run_tesseract wrote during it.
\* A text file is "none" (no file), "utf8", "cp949" (decodes as cp949 only) or
\* "bin" (decodes as neither)
NoFile == [q |-> "none", gen |-> 0]

Exists(f) == f.q # "none"

\* open(pdf, 'rb') and merger.append(f) succeed
Appendable(f) == f.q = "good"

\* check_pdf_integrity: open, PdfReader, len(pages), extract_text of the first page
check_pdf_integrity(f) == f.q \in {"good", "half"}

\* what one run of tesseract can do: exit 0 or not (check=True raises), and
\* which of the two output files it leaves
TessOutcomes ==
  { [raised |-> FALSE, pdfq |-> "good", txt |-> TRUE],
    [raised |-> FALSE, pdfq |-> "half", txt |-> TRUE],
    [raised |-> FALSE, pdfq |-> "bad",  txt |-> TRUE],
    [raised |-> FALSE, pdfq |-> "good", txt |-> FALSE],
    [raised |-> TRUE,  pdfq |-> "none", txt |-> FALSE],
    [raised |-> TRUE,  pdfq |-> "bad",  txt |-> FALSE] }

NotRun == [raised |-> FALSE, pdfq |-> "unrun", txt |-> FALSE]

\* the page the loop of merge_pdfs is at
Cur == order[idx]

Pages == {files[i] : i \in 1..Len(files)}

\* the lists of at most MaxPages distinct names
InputLists ==
  { l \in UNION {[1..k -> NamePool] : k \in 1..MaxPages} :
      \A i, j \in 1..Len(l) : i # j => l[i] # l[j] }

\* the state in which merge_pdfs is called: every page has its PDF (valid or
\* corrupt) and its UTF-8 text file, as run_tesseract leaves them
MergeInit ==
  /\ files \in InputLists
  /\ pdf \in [Pages -> {[q |-> "good", gen |-> 0], [q |-> "bad", gen |-> 0]}]
  /\ txt = [n \in Pages |-> "utf8"]
  /\ bak = [n \in Pages |-> NoFile]
  /\ txtbak = [n \in Pages |-> "none"]
  /\ image = [n \in Pages |-> "unknown"]
  /\ mpc = "start"
  /\ order = <<>>
  /\ idx = 1
  /\ merger = <<>>
  /\ successful_merges = 0
  /\ failed_files = <<>>
  /\ repaired_files = <<>>
  /\ result = "unset"
  /\ mergedPdf = [state |-> "none", pages |-> <<>>]
  /\ mergedTxt = <<>>
  /\ raised = FALSE
  /\ repairRet = "unset"
  /\ entry = NoFile
  /\ pdf0 = pdf
  /\ ocr = [n \in Pages |-> NotRun]
  /\ writeFailed = FALSE

\* the state in which merge_text_files is called on its own: text files of
\* any encoding, some of them missing
TextInit ==
  /\ files \in InputLists
  /\ pdf = [n \in Pages |-> [q |-> "good", gen |-> 0]]
  /\ txt \in [Pages -> {"utf8", "cp949", "bin", "none"}]
  /\ bak = [n \in Pages |-> NoFile]
  /\ txtbak = [n \in Pages |-> "none"]
  /\ image = [n \in Pages |-> "unknown"]
  /\ mpc = "text_call"
  /\ order = <<>>
  /\ idx = 1
  /\ merger = <<>>
  /\ successful_merges = 0
  /\ failed_files = <<>>
  /\ repaired_files = <<>>
  /\ result = "unset"
  /\ mergedPdf = [state |-> "none", pages |-> <<>>]
  /\ mergedTxt = <<>>
  /\ raised = FALSE
  /\ repairRet = "unset"
  /\ entry = NoFile
  /\ pdf0 = pdf
  /\ ocr = [n \in Pages |-> NotRun]
  /\ writeFailed = FALSE

\* the merge part at rest, for the Worker specification
MergeIdle ==
  /\ files = <<>>
  /\ pdf = <<>>
  /\ txt = <<>>
  /\ bak = <<>>
  /\ txtbak = <<>>
  /\ image = <<>>
  /\ mpc = "off"
  /\ order = <<>>
  /\ idx = 1
  /\ merger = <<>>
  /\ successful_merges = 0
  /\ failed_files = <<>>
  /\ repaired_files = <<>>
  /\ result = "unset"
  /\ mergedPdf = [state |-> "none", pages |-> <<>>]
  /\ mergedTxt = <<>>
  /\ raised = FALSE
  /\ repairRet = "unset"
  /\ entry = NoFile
  /\ pdf0 = <<>>
  /\ ocr = <<>>
  /\ writeFailed = FALSE

fsvars == <<pdf, txt, bak, txtbak>>
countvars == <<merger, successful_merges, failed_files, repaired_files>>
textvars == <<mergedTxt, raised>>

(* --------------------------- merge_pdfs ---------------------------- *)

\* merge_pdfs is called: merger = PdfMerger(), the counters are reset and
\* the for loop starts over sorted(pdf_files, key=natural_sort_key)
MergePdfsStart ==
  /\ mpc = "start"
  /\ order' = SortedBy(files, PdfSuffix)
  /\ idx' = 1
  /\ merger' = <<>>
  /\ successful_merges' = 0
  /\ failed_files' = <<>>
  /\ repaired_files' = <<>>
  /\ result' = "unset"
  /\ repairRet' = "unset"
  /\ pdf0' = pdf
  /\ ocr' = [n \in Pages |-> NotRun]
  /\ writeFailed' = FALSE
  /\ mpc' = "loop"
  /\ UNCHANGED <<files, image, mergedPdf, entry>>
  /\ UNCHANGED fsvars
  /\ UNCHANGED textvars

\* one pass of the loop: open the page and append it; on an exception go to
\* repair_corrupted_pdf; after the last page leave the loop
TryAppend ==
  /\ mpc = "loop"
  /\ IF idx > Len(order)
       THEN /\ mpc' = "write"
            /\ UNCHANGED <<idx, merger, successful_merges>>
       ELSE IF Appendable(pdf[Cur])
         THEN /\ merger' = Append(merger, Cur)
              /\ successful_merges' = successful_merges + 1
              /\ idx' = idx + 1
              /\ mpc' = "loop"
         ELSE /\ mpc' = "repair_find"
              /\ UNCHANGED <<idx, merger, successful_merges>>
  /\ UNCHANGED <<files, image, order, failed_files, repaired_files, result, mergedPdf,
                 repairRet, entry, pdf0, ocr, writeFailed>>
  /\ UNCHANGED fsvars
  /\ UNCHANGED textvars

\* repair_corrupted_pdf: find_corresponding_image; no image -> return False
FindImage ==
  /\ mpc = "repair_find"
  /\ \E found \in {"yes", "no"} :
       /\ image[Cur] \in {"unknown", found}
       /\ image' = [image EXCEPT ![Cur] = found]
       /\ IF found = "yes"
            THEN /\ mpc' = "repair_backup"
                 /\ UNCHANGED repairRet
            ELSE /\ mpc' = "repair_ret"
                 /\ repairRet' = "False"
  /\ entry' = pdf[Cur]
  /\ UNCHANGED <<files, order, idx, result, mergedPdf, pdf0, ocr, writeFailed>>
  /\ UNCHANGED fsvars
  /\ UNCHANGED countvars
  /\ UNCHANGED textvars

\* repair_corrupted_pdf: rename the PDF and the text file to their .backup names
\* (a rename replaces a .backup file that is already there)
Backup ==
  /\ mpc = "repair_backup"
  /\ IF Exists(pdf[Cur])
       THEN /\ bak' = [bak EXCEPT ![Cur] = pdf[Cur]]
            /\ pdf' = [pdf EXCEPT ![Cur] = NoFile]
       ELSE UNCHANGED <<pdf, bak>>
  /\ IF txt[Cur] # "none"
       THEN /\ txtbak' = [txtbak EXCEPT ![Cur] = txt[Cur]]
            /\ txt' = [txt EXCEPT ![Cur] = "none"]
       ELSE UNCHANGED <<txt, txtbak>>
  /\ mpc' = "repair_ocr"
  /\ UNCHANGED <<files, image, order, idx, result, mergedPdf, repairRet, entry,
                 pdf0, ocr, writeFailed>>
  /\ UNCHANGED countvars
  /\ UNCHANGED textvars

\* the files at the page's paths after run_tesseract wrote its outputs
PdfAfterOcr(o) == IF o.pdfq = "none" THEN pdf[Cur] ELSE [q |-> o.pdfq, gen |-> 1]
TxtAfterOcr(o) == IF o.txt THEN "utf8" ELSE txt[Cur]

\* the except clause of repair_corrupted_pdf: put a backup back where no file is
PdfRestored(p, b) == IF Exists(b) /\ ~Exists(p) THEN b ELSE p
BakRestored(p, b) == IF Exists(b) /\ ~Exists(p) THEN NoFile ELSE b
TxtRestored(t, b) == IF b # "none" /\ t = "none" THEN b ELSE t
TxtBakRestored(t, b) == IF b # "none" /\ t = "none" THEN "none" ELSE b

\* repair_corrupted_pdf: run_tesseract; when it raises, the except clause
\* restores the backups and returns False
Regenerate ==
  /\ mpc = "repair_ocr"
  /\ \E o \in TessOutcomes :
       /\ ocr' = [ocr EXCEPT ![Cur] = o]
       /\ IF o.raised
            THEN /\ pdf' = [pdf EXCEPT ![Cur] = PdfRestored(PdfAfterOcr(o), bak[Cur])]
                 /\ bak' = [bak EXCEPT ![Cur] = BakRestored(PdfAfterOcr(o), bak[Cur])]
                 /\ txt' = [txt EXCEPT ![Cur] = TxtRestored(TxtAfterOcr(o), txtbak[Cur])]
                 /\ txtbak' = [txtbak EXCEPT ![Cur] =
                                 TxtBakRestored(TxtAfterOcr(o), txtbak[Cur])]
                 /\ repairRet' = "False"
                 /\ mpc' = "repair_ret"
            ELSE /\ pdf' = [pdf EXCEPT ![Cur] = PdfAfterOcr(o)]
                 /\ txt' = [txt EXCEPT ![Cur] = TxtAfterOcr(o)]
                 /\ UNCHANGED <<bak, txtbak, repairRet>>
                 /\ mpc' = "repair_verify"
  /\ UNCHANGED <<files, image, order, idx, result, mergedPdf, entry, pdf0,
                 writeFailed>>
  /\ UNCHANGED countvars
  /\ UNCHANGED textvars

\* a repair that would leave the two .backup files where they are
BackupsKept == [b |-> bak[order[idx]], t |-> txtbak[order[idx]]]

\* what repair_corrupted_pdf leaves at the two .backup paths when the
\* regenerated PDF is valid: both are unlinked
BackupsAfterSuccess == [b |-> NoFile, t |-> "none"]

\* repair_corrupted_pdf: both outputs exist and check_pdf_integrity passes ->
\* unlink the backups, return True; otherwise return False
Verify ==
  /\ mpc = "repair_verify"
  /\ IF Exists(pdf[Cur]) /\ txt[Cur] # "none" /\ check_pdf_integrity(pdf[Cur])
       THEN /\ bak' = [bak EXCEPT ![Cur] = BackupsAfterSuccess.b]
            /\ txtbak' = [txtbak EXCEPT ![Cur] = BackupsAfterSuccess.t]
            /\ repairRet' = "True"
       ELSE /\ repairRet' = "False"
            /\ UNCHANGED <<bak, txtbak>>
  /\ mpc' = "repair_ret"
  /\ UNCHANGED <<files, pdf, txt, image, order, idx, result, mergedPdf, entry,
                 pdf0, ocr, writeFailed>>
  /\ UNCHANGED countvars
  /\ UNCHANGED textvars

\* a loop that would end at the first page put into failed_files (break)
AfterFailedPageBreaks(i) == Len(order) + 1

\* the index the loop goes on with after a page was put into failed_files (continue)
AfterFailedPage(i) == i + 1

\* merge_pdfs after repair_corrupted_pdf returned: True -> open and append
\* again (success: count it and note it in repaired_files; exception:
\* failed_files); False -> failed_files
AfterRepair ==
  /\ mpc = "repair_ret"
  /\ IF repairRet = "True" /\ Appendable(pdf[Cur])
       THEN /\ merger' = Append(merger, Cur)
            /\ successful_merges' = successful_merges + 1
            /\ repaired_files' = Append(repaired_files, Cur)
            /\ idx' = idx + 1
            /\ UNCHANGED failed_files
       ELSE /\ failed_files' = Append(failed_files, Cur)
            /\ idx' = AfterFailedPage(idx)
            /\ UNCHANGED <<merger, successful_merges, repaired_files>>
  /\ mpc' = "loop"
  /\ UNCHANGED <<files, image, order, result, mergedPdf, repairRet, entry, pdf0,
                 ocr, writeFailed>>
  /\ UNCHANGED fsvars
  /\ UNCHANGED textvars

\* merge_pdfs after the loop: nothing merged -> return None; merger.write ->
\* return merged_path, or on an exception return None
WriteMerged ==
  /\ mpc = "write"
  /\ IF successful_merges = 0
       THEN /\ result' = "None"
            /\ UNCHANGED <<mergedPdf, writeFailed>>
       ELSE \/ /\ mergedPdf' = [state |-> "ok", pages |-> merger]
               /\ result' = "path"
               /\ UNCHANGED writeFailed
            \/ /\ mergedPdf' \in {mergedPdf, [state |-> "partial", pages |-> <<>>]}
               /\ result' = "None"
               /\ writeFailed' = TRUE
  /\ mpc' = "pdf_ret"
  /\ UNCHANGED <<files, image, order, idx, repairRet, entry, pdf0, ocr>>
  /\ UNCHANGED fsvars
  /\ UNCHANGED countvars
  /\ UNCHANGED textvars

(* ------------------------ merge_text_files ------------------------- *)

\* what the handlers of merge_text_files do for a file of content t:
\* "utf8" / "cp949": its decoded content is written; "placeholder": the
\* placeholder line is written; "raise": the exception leaves the function
\* (open() of a missing file raises FileNotFoundError, which the handler
\* `except UnicodeDecodeError` of the first attempt does not catch)
ReadOutcome(t) ==
  IF t = "none" THEN "raise"
  ELSE IF t = "utf8" THEN "utf8"
  ELSE IF t = "cp949" THEN "cp949"
  ELSE "placeholder"

\* the loop of merge_text_files over the sorted list: what it has written
\* when it ends, and whether it ended by an exception
RECURSIVE TextLoop(_, _)
TextLoop(list, written) ==
  IF list = <<>> THEN [written |-> written, raised |-> FALSE]
  ELSE IF ReadOutcome(txt[Head(list)]) = "raise"
    THEN [written |-> written, raised |-> TRUE]
    ELSE TextLoop(Tail(list),
                  Append(written,
                         [name |-> Head(list), how |-> ReadOutcome(txt[Head(list)])]))

\* merge_text_files (called by main after merge_pdfs, or on its own):
\* open(merged_path, 'w'), then for each file of sorted(text_files,
\* key=natural_sort_key): read as UTF-8 and write; on UnicodeDecodeError read as
\* cp949 and write; when that fails too, write the placeholder line
merge_text_files ==
  /\ mpc \in {"pdf_ret", "text_call"}
  /\ order' = SortedBy(files, TxtSuffix)
  /\ idx' = 1
  /\ mergedTxt' = TextLoop(order', <<>>).written
  /\ raised' = TextLoop(order', <<>>).raised
  /\ mpc' = "done"
  /\ UNCHANGED <<files, image, result, mergedPdf, repairRet, entry, pdf0, ocr,
                 writeFailed>>
  /\ UNCHANGED fsvars
  /\ UNCHANGED countvars

(* ------------- repeated repair_corrupted_pdf calls ----------------- *)

\* repair_corrupted_pdf is called for one page whose PDF failed to append:
\* the corrupt original and its text file are in the directory, no backups
RepairInit ==
  /\ files \in {l \in InputLists : Len(l) = 1}
  /\ pdf = [n \in Pages |-> [q |-> "bad", gen |-> 0]]
  /\ txt = [n \in Pages |-> "utf8"]
  /\ bak = [n \in Pages |-> NoFile]
  /\ txtbak = [n \in Pages |-> "none"]
  /\ image = [n \in Pages |-> "unknown"]
  /\ mpc = "repair_find"
  /\ order = files
  /\ idx = 1
  /\ merger = <<>>
  /\ successful_merges = 0
  /\ failed_files = <<>>
  /\ repaired_files = <<>>
  /\ result = "unset"
  /\ mergedPdf = [state |-> "none", pages |-> <<>>]
  /\ mergedTxt = <<>>
  /\ raised = FALSE
  /\ repairRet = "unset"
  /\ entry = NoFile
  /\ pdf0 = pdf
  /\ ocr = [n \in Pages |-> NotRun]
  /\ writeFailed = FALSE

\* a later merge_pdfs run finds that the page still fails to append and calls
\* repair_corrupted_pdf for it again
RepairAgain ==
  /\ mpc = "repair_ret"
  /\ ~Appendable(pdf[Cur])
  /\ mpc' = "repair_find"
  /\ repairRet' = "unset"
  /\ UNCHANGED <<files, image, order, idx, result, mergedPdf, entry, pdf0, ocr,
                 writeFailed>>
  /\ UNCHANGED fsvars
  /\ UNCHANGED countvars
  /\ UNCHANGED textvars

\* the Worker part at rest, for the merge specification
WorkerIdle ==
  /\ WorkerInit([capture |-> FALSE, pdf |-> FALSE, ocr |-> FALSE, docx |-> FALSE])
  /\ GuiInit

(* ================================================================== *)
(*      GUI: starting and stopping worker threads (src/gui.py)         *)
(* ================================================================== *)

\* DocumentProcessorGUI.__init__: no worker, nothing running, Run enabled
LauncherInit ==
  /\ spinStart \in 0..MaxSpin
  /\ spinEnd \in 0..MaxSpin
  /\ threads = <<>>
  /\ curWorker = 0
  /\ guiRunning = FALSE
  /\ guiPaused = FALSE
  /\ runEnabled = TRUE
  /\ finQueue = 0

\* the launcher part at rest, for the other specifications
LauncherIdle ==
  /\ spinStart = 1
  /\ spinEnd = 1
  /\ threads = <<>>
  /\ curWorker = 0
  /\ guiRunning = FALSE
  /\ guiPaused = FALSE
  /\ runEnabled = TRUE
  /\ finQueue = 0

\* a start_workflow without the isRunning() test of its first statement
NeverSeenRunning == FALSE

\* `hasattr(self, 'worker') and self.worker and self.worker.isRunning()`
WorkerIsRunning == curWorker # 0 /\ threads[curWorker] # "ended"

\* update_ui_state: runButton.setEnabled(not self.workflow_running), and the
\* input widgets likewise
RunEnabledFor(running) == ~running

\* the user edits the page spin boxes (enabled while no workflow runs)
EditPages ==
  /\ runEnabled
  /\ \E a, b \in 0..MaxSpin :
       /\ <<a, b>> # <<spinStart, spinEnd>>
       /\ spinStart' = a
       /\ spinEnd' = b
  /\ UNCHANGED <<threads, curWorker, guiRunning, guiPaused, runEnabled, finQueue>>

\* start_workflow, the slot of runButton.clicked
start_workflow ==
  /\ runEnabled
  /\ IF WorkerIsRunning
       THEN UNCHANGED lvars
       ELSE IF spinEnd < spinStart
         THEN /\ spinEnd' = spinStart
              /\ UNCHANGED <<spinStart, threads, curWorker, guiRunning, guiPaused,
                             runEnabled, finQueue>>
         ELSE IF spinStart < 1 \/ spinEnd < 1
           THEN UNCHANGED lvars
           ELSE \/ /\ Len(threads) < MaxWorkers
                   /\ threads' = Append(threads, "running")
                   /\ curWorker' = Len(threads) + 1
                   /\ guiRunning' = TRUE
                   /\ guiPaused' = FALSE
                   /\ runEnabled' = RunEnabledFor(TRUE)
                   /\ UNCHANGED <<spinStart, spinEnd, finQueue>>
                \/ \* get_params or Worker(params) raises: the except clause
                   /\ guiRunning' = FALSE
                   /\ guiPaused' = FALSE
                   /\ runEnabled' = RunEnabledFor(FALSE)
                   /\ UNCHANGED <<spinStart, spinEnd, threads, curWorker, finQueue>>

\* Worker.run of thread i emits finished_signal (queued to the GUI thread)
WorkerEmitsFinished ==
  \E i \in 1..Len(threads) :
    /\ threads[i] = "running"
    /\ threads' = [threads EXCEPT ![i] = "emitted"]
    /\ finQueue' = finQueue + 1
    /\ UNCHANGED <<spinStart, spinEnd, curWorker, guiRunning, guiPaused, runEnabled>>

\* Worker.run of thread i returns (after finished_signal, after error_signal,
\* or silently after a stop): the thread is no longer running
WorkerReturns ==
  \E i \in 1..Len(threads) :
    /\ threads[i] \in {"running", "emitted"}
    /\ threads' = [threads EXCEPT ![i] = "ended"]
    /\ UNCHANGED <<spinStart, spinEnd, curWorker, guiRunning, guiPaused, runEnabled,
                   finQueue>>

\* on_workflow_finished, the slot of finished_signal
on_workflow_finished ==
  /\ finQueue > 0
  /\ finQueue' = finQueue - 1
  /\ guiRunning' = FALSE
  /\ guiPaused' = FALSE
  /\ runEnabled' = RunEnabledFor(FALSE)
  /\ UNCHANGED <<spinStart, spinEnd, threads, curWorker>>

\* toggle_pause, the slot of pauseButton.clicked (enabled while a workflow runs)
toggle_pause ==
  /\ guiRunning
  /\ curWorker # 0
  /\ guiPaused' = ~guiPaused
  /\ UNCHANGED <<spinStart, spinEnd, threads, curWorker, guiRunning, runEnabled,
                 finQueue>>

\* stop_workflow, the slot of stopButton.clicked (enabled while a workflow
\* runs), answered Yes: worker.stop(); quit(); wait(2000); terminate() and
\* wait() if the thread still runs; then the flags are reset
stop_workflow ==
  /\ guiRunning
  /\ curWorker # 0
  /\ threads' = [threads EXCEPT ![curWorker] = "ended"]
  /\ guiRunning' = FALSE
  /\ guiPaused' = FALSE
  /\ runEnabled' = RunEnabledFor(FALSE)
  /\ UNCHANGED <<spinStart, spinEnd, curWorker, finQueue>>

(* ================================================================== *)
(*                   ORCHESTRATION  (src/run.py)                       *)
(* ================================================================== *)

RunStages == {"capture", "convert", "basic", "newneek"}

Unset == [st \in RunStages |-> "unset"]

\* run.py is started on an empty output directory with a page range start <= end
RunInit ==
  /\ rStart \in 1..MaxEnd
  /\ rEnd \in rStart..MaxEnd
  /\ pngs = {}
  /\ hasPdf = FALSE
  /\ hasTxt = FALSE
  /\ hasBasic = FALSE
  /\ hasNewneek = FALSE
  /\ rpc = "capture"
  /\ runs = 1
  /\ skipped = Unset
  /\ present = [st \in RunStages |-> FALSE]
  /\ outcome = Unset
  /\ prevClean = FALSE
  /\ rExit = "none"
  /\ prevOutcome = Unset

\* the orchestration part at rest, for the other specifications
RunIdle ==
  /\ rStart = 1
  /\ rEnd = 1
  /\ pngs = {}
  /\ hasPdf = FALSE
  /\ hasTxt = FALSE
  /\ hasBasic = FALSE
  /\ hasNewneek = FALSE
  /\ rpc = "off"
  /\ runs = 0
  /\ skipped = Unset
  /\ present = [st \in RunStages |-> FALSE]
  /\ outcome = Unset
  /\ prevClean = FALSE
  /\ rExit = "none"
  /\ prevOutcome = Unset

\* `len(list(output_path.glob('*.png'))) > 1`
SkipCapture == Cardinality(pngs) > 1

\* the negation of `not (<title>.pdf).exists() or not (<title>.txt).exists()`
SkipConvert == hasPdf /\ hasTxt

\* the negation of `not (<title>_basic.md).exists()`
SkipBasic == hasBasic

\* the negation of `not (<title>_newneek.md).exists()`
SkipNewneek == hasNewneek

\* the files a stage is expected to leave are all in the output directory
OutputsPresent(st) ==
  CASE st = "capture" -> (rStart..rEnd) \subseteq pngs
    [] st = "convert" -> hasPdf /\ hasTxt
    [] st = "basic" -> hasBasic
    [] st = "newneek" -> hasNewneek

\* what main() of run.py notes of a stage it skips / invokes with result o
Decided(st, skip, o) ==
  /\ skipped' = [skipped EXCEPT ![st] = IF skip THEN "yes" ELSE "no"]
  /\ present' = [present EXCEPT ![st] = OutputsPresent(st)]
  /\ outcome' = [outcome EXCEPT ![st] = o]

\* the capture stage: skipped, or subprocess.run(['python', 'scr_to_img.py',
\* ...]) whose return code is not looked at. scr_to_img.py captures the pages
\* in order and exits with 1 at the first page whose window activation fails.
CaptureStep ==
  /\ rpc = "capture"
  /\ IF SkipCapture
       THEN /\ Decided("capture", TRUE, "unset")
            /\ UNCHANGED pngs
       ELSE \/ /\ pngs' = pngs \cup (rStart..rEnd)
               /\ Decided("capture", FALSE, "ok")
            \/ \E k \in rStart..rEnd :
                 /\ pngs' = pngs \cup (rStart..(k - 1))
                 /\ Decided("capture", FALSE, "fail")
  /\ rpc' = "convert"
  /\ UNCHANGED <<rStart, rEnd, hasPdf, hasTxt, hasBasic, hasNewneek, runs,
                 prevClean, rExit, prevOutcome>>

\* the conversion stage: skipped, or subprocess.run(['python', 'img_to_pdf.py',
\* '-i', output_path]); with no image in the directory img_to_pdf.py exits 0
\* and writes nothing; a failing merge may leave the merged PDF without the text
ConvertStep ==
  /\ rpc = "convert"
  /\ IF SkipConvert
       THEN /\ Decided("convert", TRUE, "unset")
            /\ UNCHANGED <<hasPdf, hasTxt>>
       ELSE IF pngs = {}
         THEN /\ Decided("convert", FALSE, "noOutput")
              /\ UNCHANGED <<hasPdf, hasTxt>>
         ELSE \/ /\ hasPdf' = TRUE
                 /\ hasTxt' = TRUE
                 /\ Decided("convert", FALSE, "ok")
              \/ /\ hasPdf' \in {hasPdf, TRUE}
                 /\ UNCHANGED hasTxt
                 /\ Decided("convert", FALSE, "fail")
  /\ rpc' = "basic"
  /\ UNCHANGED <<rStart, rEnd, pngs, hasBasic, hasNewneek, runs, prevClean, rExit,
                 prevOutcome>>

\* what one run of txt_to_doc.py can do: without <title>.txt it exits 1;
\* otherwise it writes the summary and exits 0 ("ok"); or it exits 0 after
\* _generate_text_summary returned False and "Failed to generate summary" was
\* logged, either before the output file was opened ("noOutput": no API key,
\* the request raised) or after ("badOutput": the stream raised or delivered
\* nothing); or it exits with an error ("fail")
SummaryOutcomes ==
  IF hasTxt THEN {"ok", "noOutput", "badOutput", "fail"} ELSE {"fail"}

\* the output file is there after a run of txt_to_doc.py with outcome o:
\* open(output_file, 'w') has created it
SummaryFileLeft(o) == o \in {"ok", "badOutput"}

\* the basic-prompt summary stage
BasicStep ==
  /\ rpc = "basic"
  /\ IF SkipBasic
       THEN /\ Decided("basic", TRUE, "unset")
            /\ UNCHANGED hasBasic
       ELSE \E o \in SummaryOutcomes :
              /\ hasBasic' = SummaryFileLeft(o)
              /\ Decided("basic", FALSE, o)
  /\ rpc' = "newneek"
  /\ UNCHANGED <<rStart, rEnd, pngs, hasPdf, hasTxt, hasNewneek, runs, prevClean,
                 rExit, prevOutcome>>

\* the newneek-prompt summary stage
NewneekStep ==
  /\ rpc = "newneek"
  /\ IF SkipNewneek
       THEN /\ Decided("newneek", TRUE, "unset")
            /\ UNCHANGED hasNewneek
       ELSE \E o \in SummaryOutcomes :
              /\ hasNewneek' = SummaryFileLeft(o)
              /\ Decided("newneek", FALSE, o)
  /\ rpc' = "return"
  /\ UNCHANGED <<rStart, rEnd, pngs, hasPdf, hasTxt, hasBasic, runs, prevClean,
                 rExit, prevOutcome>>

\* the exit status of run.py when main() returns
ExitStatusOfRun == "zero"

\* main() returns and the interpreter exits
RunReturns ==
  /\ rpc = "return"
  /\ rExit' = ExitStatusOfRun
  /\ rpc' = "exited"
  /\ UNCHANGED <<rStart, rEnd, pngs, hasPdf, hasTxt, hasBasic, hasNewneek, runs,
                 skipped, present, outcome, prevClean, prevOutcome>>

\* run.py is run again with the same title and page range
RunAgain ==
  /\ rpc = "exited"
  /\ runs < MaxRuns
  /\ runs' = runs + 1
  /\ prevClean' = \A st \in RunStages : outcome[st] = "ok"
  /\ prevOutcome' = outcome
  /\ skipped' = Unset
  /\ present' = [st \in RunStages |-> FALSE]
  /\ outcome' = Unset
  /\ rExit' = "none"
  /\ rpc' = "capture"
  /\ UNCHANGED <<rStart, rEnd, pngs, hasPdf, hasTxt, hasBasic, hasNewneek>>

(* ================================================================== *)
(*        DIRECTORY RUN of img_to_pdf.py  (src/img_to_pdf.py main)     *)
(* ================================================================== *)

\* the files of the output directory
DirFiles == [pagePdf |-> dPagePdf, pageTxt |-> dPageTxt,
             mergedPdf |-> dMergedPdf, mergedTxt |-> dMergedTxt]

\* img_to_pdf.py -i <dir> is started: any set of images, any of the per-page
\* and merged outputs already there
DirInit ==
  /\ dImages \in SUBSET (1..MaxImages)
  /\ dPagePdf \in [dImages -> BOOLEAN]
  /\ dPageTxt \in [dImages -> BOOLEAN]
  /\ dMergedPdf \in BOOLEAN
  /\ dMergedTxt \in BOOLEAN
  /\ dpc = "check"
  /\ dTodo = dImages
  /\ dRuns = 1
  /\ ocrRuns = 0
  /\ repairs = 0
  /\ mergeCalls = 0
  /\ textCalls = 0
  /\ fileOps = 0
  /\ dir0 = DirFiles
  /\ generated_pdfs = <<>>
  /\ ocrCalled = {}
  /\ mergeArg = <<>>

\* the directory part at rest, for the other specifications
DirIdle ==
  /\ dImages = {}
  /\ dPagePdf = <<>>
  /\ dPageTxt = <<>>
  /\ dMergedPdf = FALSE
  /\ dMergedTxt = FALSE
  /\ dpc = "off"
  /\ dTodo = {}
  /\ dRuns = 0
  /\ ocrRuns = 0
  /\ repairs = 0
  /\ mergeCalls = 0
  /\ textCalls = 0
  /\ fileOps = 0
  /\ dir0 = <<>>
  /\ generated_pdfs = <<>>
  /\ ocrCalled = {}
  /\ mergeArg = <<>>

\* a test that would look at the merged PDF only
MergedPdfThere == dMergedPdf

\* `merged_pdf_path.exists() and merged_text_path.exists()`
AlreadyMerged == dMergedPdf /\ dMergedTxt

\* main, directory branch up to the check of the merged files: mkdir(exist_ok=True),
\* glob and sort the images, log; both merged files there -> return
DirCheck ==
  /\ dpc = "check"
  /\ dpc' = IF AlreadyMerged THEN "returned" ELSE "pages"
  /\ UNCHANGED <<dImages, dPagePdf, dPageTxt, dMergedPdf, dMergedTxt, dTodo, dRuns,
                 ocrRuns, repairs, mergeCalls, textCalls, fileOps, dir0,
                 generated_pdfs, ocrCalled, mergeArg>>

\* the image the for loop handles next (the images are sorted)
NextImage == CHOOSE i \in dTodo : \A j \in dTodo : i <= j

\* a loop that would look at the per-page PDF only
PagePdfExists(i) == dPagePdf[i]

\* `pdf_path.exists() and text_path.exists()`
PageOutputsExist(i) == dPagePdf[i] /\ dPageTxt[i]

\* one pass of `for image_file in image_files`: both outputs there -> keep
\* them; otherwise run_tesseract, which writes both or raises
\* CalledProcessError; the two paths are appended to generated_pdfs and
\* generated_texts in both cases
PageStep ==
  /\ dpc = "pages"
  /\ dTodo # {}
  /\ dTodo' = dTodo \ {NextImage}
  /\ IF PageOutputsExist(NextImage)
       THEN /\ generated_pdfs' = Append(generated_pdfs, NextImage)
            /\ UNCHANGED <<dPagePdf, dPageTxt, ocrRuns, fileOps, dpc, ocrCalled>>
       ELSE /\ ocrCalled' = ocrCalled \cup {NextImage}
            /\ \/ /\ dPagePdf' = [dPagePdf EXCEPT ![NextImage] = TRUE]
                  /\ dPageTxt' = [dPageTxt EXCEPT ![NextImage] = TRUE]
                  /\ ocrRuns' = ocrRuns + 1
                  /\ fileOps' = fileOps + 1
                  /\ generated_pdfs' = Append(generated_pdfs, NextImage)
                  /\ UNCHANGED dpc
               \/ /\ ocrRuns' = ocrRuns + 1
                  /\ dpc' = "crashed"
                  /\ UNCHANGED <<dPagePdf, dPageTxt, fileOps, generated_pdfs>>
  /\ UNCHANGED <<dImages, dMergedPdf, dMergedTxt, dRuns, repairs, mergeCalls,
                 textCalls, dir0, mergeArg>>

\* after the loop: no PDF -> warning and return; otherwise merge_pdfs, whose
\* return value is not looked at (it may repair pages, and writes the merged
\* PDF unless nothing could be appended or the write failed)
DirMergePdfs ==
  /\ dpc = "pages"
  /\ dTodo = {}
  /\ IF dImages = {}
       THEN /\ dpc' = "returned"
            /\ UNCHANGED <<dMergedPdf, repairs, mergeCalls, fileOps, mergeArg>>
       ELSE /\ mergeCalls' = mergeCalls + 1
            /\ mergeArg' = generated_pdfs
            /\ \E wrote, repaired \in BOOLEAN :
                 /\ dMergedPdf' = (dMergedPdf \/ wrote)
                 /\ repairs' = repairs + (IF repaired THEN 1 ELSE 0)
                 /\ fileOps' = fileOps + (IF wrote \/ repaired THEN 1 ELSE 0)
            /\ dpc' = "text"
  /\ UNCHANGED <<dImages, dPagePdf, dPageTxt, dMergedTxt, dTodo, dRuns, ocrRuns,
                 textCalls, dir0, generated_pdfs, ocrCalled>>

\* merge_text_files: open(merged_path, 'w') creates the merged text file; the
\* function returns, or an exception leaves it and main
DirMergeText ==
  /\ dpc = "text"
  /\ textCalls' = textCalls + 1
  /\ dMergedTxt' = TRUE
  /\ fileOps' = fileOps + 1
  /\ dpc' \in {"returned", "crashed"}
  /\ UNCHANGED <<dImages, dPagePdf, dPageTxt, dMergedPdf, dTodo, dRuns, ocrRuns,
                 repairs, mergeCalls, dir0, generated_pdfs, ocrCalled, mergeArg>>

\* img_to_pdf.py is run again on the same directory
DirAgain ==
  /\ dpc \in {"returned", "crashed"}
  /\ dRuns < MaxDirRuns
  /\ dRuns' = dRuns + 1
  /\ dpc' = "check"
  /\ dTodo' = dImages
  /\ ocrRuns' = 0
  /\ repairs' = 0
  /\ mergeCalls' = 0
  /\ textCalls' = 0
  /\ fileOps' = 0
  /\ dir0' = DirFiles
  /\ generated_pdfs' = <<>>
  /\ ocrCalled' = {}
  /\ mergeArg' = <<>>
  /\ UNCHANGED <<dImages, dPagePdf, dPageTxt, dMergedPdf, dMergedTxt>>

(* ================================================================== *)
(*      TextExtractor.process_file  (src/input_to_txt.py)              *)
(* ================================================================== *)

\* process_file is called on an existing input file; for a PDF the pages were
\* extracted and OCRed and the temporary text file was written
ExtractInit ==
  /\ isPdf \in BOOLEAN
  /\ tempExists = isPdf
  /\ epc = "upload"
  /\ remote = FALSE
  /\ hasId = FALSE
  /\ out = "none"
  /\ content_saved = FALSE
  /\ chunks = 0
  /\ jsonErr = FALSE
  /\ salvageTried = FALSE
  /\ uploadedOnce = FALSE

\* the extraction part at rest, for the other specifications
ExtractIdle ==
  /\ isPdf = FALSE
  /\ tempExists = FALSE
  /\ epc = "off"
  /\ remote = FALSE
  /\ hasId = FALSE
  /\ out = "none"
  /\ content_saved = FALSE
  /\ chunks = 0
  /\ jsonErr = FALSE
  /\ salvageTried = FALSE
  /\ uploadedOnce = FALSE

\* the `finally` of the PDF branch: temp_path.unlink(); it is passed whenever
\* the try block of the PDF branch is left
TempAfterTry == FALSE

\* self.client.files.upload(...): returns the uploaded file (with or without
\* an attribute `id`), or raises
Upload ==
  /\ epc = "upload"
  /\ \/ /\ remote' = TRUE
        /\ uploadedOnce' = TRUE
        /\ hasId' \in BOOLEAN
        /\ epc' = "generate"
        /\ UNCHANGED tempExists
     \/ /\ epc' = "raised"
        /\ tempExists' = (IF isPdf THEN TempAfterTry ELSE tempExists)
        /\ UNCHANGED <<remote, uploadedOnce, hasId>>
  /\ UNCHANGED <<isPdf, out, content_saved, chunks, jsonErr, salvageTried>>

\* self.client.models.generate_content_stream(...): returns the response, or
\* raises (nothing in process_file catches it)
Generate ==
  /\ epc = "generate"
  /\ epc' \in {"open", "raised"}
  /\ tempExists' = (IF isPdf THEN TempAfterTry ELSE tempExists)
  /\ UNCHANGED <<isPdf, remote, hasId, out, content_saved, chunks, jsonErr,
                 salvageTried, uploadedOnce>>

\* `with open(output_path, 'w', encoding='utf-8') as f_out`: the file is
\* created empty, or open raises; content_saved = False
OpenOutput ==
  /\ epc = "open"
  /\ \/ /\ out' = <<>>
        /\ content_saved' = FALSE
        /\ epc' = "stream"
     \/ /\ epc' = "raised"
        /\ UNCHANGED <<out, content_saved>>
  /\ UNCHANGED <<isPdf, tempExists, remote, hasId, chunks, jsonErr, salvageTried,
                 uploadedOnce>>

\* what f_out.write(text) leaves in the file: an empty string adds nothing
Written(file, text) == IF text = "" THEN file ELSE Append(file, text)

\* the chunk counts as content: hasattr(chunk, 'text') and chunk.text is not None
HasText(text) == text # "None"

\* one step of `for chunk in response`: a chunk (text None, empty or not),
\* the end of the stream, json.JSONDecodeError, or another exception
StreamStep ==
  /\ epc = "stream"
  /\ \/ /\ chunks < MaxChunks
        /\ \E text \in {"None", "", "text"} :
             /\ chunks' = chunks + 1
             /\ IF HasText(text)
                  THEN /\ out' = Written(out, text)
                       /\ content_saved' = TRUE
                  ELSE UNCHANGED <<out, content_saved>>
        /\ UNCHANGED <<epc, jsonErr>>
     \/ /\ epc' = "mark"
        /\ UNCHANGED <<out, content_saved, chunks, jsonErr>>
     \/ /\ jsonErr' = TRUE
        /\ epc' = IF content_saved THEN "mark" ELSE "salvage"
        /\ UNCHANGED <<out, content_saved, chunks>>
  /\ UNCHANGED <<isPdf, tempExists, remote, hasId, salvageTried, uploadedOnce>>

\* n times the same element
Repeat(x, n) == [i \in 1..n |-> x]

\* the fallback over response._raw_response.text: n matches of the "text"
\* pattern are unescaped and written before the loop ends or an exception
\* ends it (n = 0: no raw response, no match, or the first unescape raises)
Salvage ==
  /\ epc = "salvage"
  /\ salvageTried' = TRUE
  /\ \E n \in 0..MaxMatches :
       /\ out' = out \o Repeat("salvaged", n)
       /\ content_saved' = (content_saved \/ n > 0)
  /\ epc' = "mark"
  /\ UNCHANGED <<isPdf, tempExists, remote, hasId, chunks, jsonErr, uploadedOnce>>

\* `if not content_saved: f_out.write("Error processing document. ...")`, and
\* the with block closes the file; an exception of this write leaves process_file
Mark ==
  /\ epc = "mark"
  /\ \/ /\ out' = IF content_saved THEN out ELSE Append(out, "marker")
        /\ epc' = "delete"
     \/ /\ ~content_saved
        /\ epc' = "raised"
        /\ UNCHANGED out
  /\ UNCHANGED <<isPdf, tempExists, remote, hasId, content_saved, chunks, jsonErr,
                 salvageTried, uploadedOnce>>

\* `if hasattr(uploaded_file, 'id'): self.client.files.delete(...)`; an
\* exception of delete is logged and swallowed
Delete ==
  /\ epc = "delete"
  /\ IF hasId THEN remote' \in {FALSE, remote} ELSE UNCHANGED remote
  /\ epc' = "returned"
  /\ UNCHANGED <<isPdf, tempExists, hasId, out, content_saved, chunks, jsonErr,
                 salvageTried, uploadedOnce>>

(* ================================================================== *)
(*      Settings: defaults, load_settings, save_settings (src/gui.py)  *)
(* ================================================================== *)

\* self.defaults, one field of each value type (the loops of load_settings and
\* save_settings treat the fields of one value type alike), in list order
FieldOrder == <<"bookLineEdit", "startSpinBox", "ocrCheckBox">>

Fields == {FieldOrder[i] : i \in 1..Len(FieldOrder)}

\* the fourth column of self.defaults
ValueType ==
  [bookLineEdit |-> "text", startSpinBox |-> "value", ocrCheckBox |-> "checked"]

\* the second column of self.defaults
Defaults ==
  [bookLineEdit |-> "bookTitle", startSpinBox |-> 1, ocrCheckBox |-> TRUE]

\* the values a widget can hold
WidgetValues(f) ==
  CASE ValueType[f] = "text" -> {"bookTitle", "book2", ""}
    [] ValueType[f] = "value" -> 1..MaxValue
    [] ValueType[f] = "checked" -> BOOLEAN

\* QSpinBox.setValue: the value is brought into the range of the spin box
SetValue(v) == IF v < 1 THEN 1 ELSE IF v > MaxValue THEN MaxValue ELSE v

\* getattr(widget, set_method)(x): setText, setValue, setChecked
SetWidget(f, x) == IF ValueType[f] = "value" THEN SetValue(x) ELSE x

\* json.dump of one value: True/False become the literals true/false
JsonDump(f, x) ==
  IF ValueType[f] = "checked" THEN (IF x THEN "true" ELSE "false") ELSE x

\* json.load of one value
JsonLoad(f, tok) == IF ValueType[f] = "checked" THEN tok = "true" ELSE tok

\* bool(value)
Bool(x) == x

\* the settings file does not exist
NoSettingsFile ==
  [st |-> "missing", keys |-> {}, data |-> [f \in Fields |-> JsonDump(f, Defaults[f])]]

\* the GUI after construction in a home directory without a settings file:
\* __init__ ran load_settings, which applied the defaults
SettingsInit ==
  /\ widget = Defaults
  /\ settingsFile = NoSettingsFile
  /\ snapshot = Defaults
  /\ lastOp = "load"

\* the settings at rest, for the other specifications
SettingsIdle ==
  /\ widget = Defaults
  /\ settingsFile = NoSettingsFile
  /\ snapshot = Defaults
  /\ lastOp = "off"

\* the user changes one field of the window
EditField ==
  /\ lastOp # "off"
  /\ \E f \in Fields : \E v \in WidgetValues(f) :
       /\ v # widget[f]
       /\ widget' = [widget EXCEPT ![f] = v]
  /\ lastOp' = "edit"
  /\ UNCHANGED <<settingsFile, snapshot>>

\* save_settings: data[key] = text() / value() / isChecked() of every field,
\* then json.dump into SETTINGS_PATH; an exception of open leaves the file as
\* it was, an exception of the dump leaves a truncated file; both are logged
save_settings ==
  /\ lastOp # "off"
  /\ LET data == [f \in Fields |-> JsonDump(f, widget[f])]
     IN \/ /\ settingsFile' = [st |-> "object", keys |-> Fields, data |-> data]
           /\ snapshot' = widget
        \/ UNCHANGED <<settingsFile, snapshot>>
        \/ /\ settingsFile' = [settingsFile EXCEPT !.st = "unparsable"]
           /\ UNCHANGED snapshot
  /\ lastOp' = "save"
  /\ UNCHANGED widget

\* something else changes the file: a key is taken out of it, the file is
\* removed, or its content stops being JSON
FileChanges ==
  /\ lastOp # "off"
  /\ \/ /\ settingsFile.st = "object"
        /\ \E f \in settingsFile.keys :
             settingsFile' = [settingsFile EXCEPT !.keys = @ \ {f}]
     \/ /\ settingsFile.st # "missing"
        /\ settingsFile' = [settingsFile EXCEPT !.st = "missing"]
     \/ /\ settingsFile.st = "object"
        /\ settingsFile' = [settingsFile EXCEPT !.st = "unparsable"]
  /\ lastOp' = "file"
  /\ UNCHANGED <<widget, snapshot>>

\* a load that leaves the field of a missing key as it is
MissingKeyKeepsWidget(w, f) == w

\* `if key not in data`: the default is set, and the loop continues
MissingKey(w, f) == [w EXCEPT ![f] = SetWidget(f, Defaults[f])]

\* the key is in data: bool(value) for a check box, else the value itself
PresentKey(w, f, value) ==
  [w EXCEPT ![f] = SetWidget(f, IF ValueType[f] = "checked" THEN Bool(value) ELSE value)]

\* the loop of load_settings over self.defaults, from field i on
RECURSIVE LoadLoop(_, _)
LoadLoop(w, i) ==
  IF i > Len(FieldOrder) THEN w
  ELSE LET f == FieldOrder[i]
       IN LoadLoop(IF f \notin settingsFile.keys
                     THEN MissingKey(w, f)
                     ELSE PresentKey(w, f, JsonLoad(f, settingsFile.data[f])),
                   i + 1)

\* the except branch of load_settings: every field gets its default
ApplyDefaults == [f \in Fields |-> SetWidget(f, Defaults[f])]

\* load_settings
load_settings ==
  /\ lastOp # "off"
  /\ widget' = IF settingsFile.st = "object" THEN LoadLoop(widget, 1) ELSE ApplyDefaults
  /\ lastOp' = "load"
  /\ UNCHANGED <<settingsFile, snapshot>>

(* ================================================================== *)
(*      The capture loop of main  (src/scr_to_img.py)                  *)
(* ================================================================== *)

\* main has passed check_dependencies and get_window_info and enters the loop
\* `for i in range(args.end - args.start + 1)` with start <= end
CaptureInit ==
  /\ argStart \in 1..MaxCapture
  /\ argEnd \in argStart..MaxCapture
  /\ argNext \in BOOLEAN
  /\ ci = 0
  /\ cpc = "activate"
  /\ captured = <<>>
  /\ keysSent = 0
  /\ actFailed = FALSE
  /\ capturedAtFail = 0

\* the capture part at rest, for the other specifications
CaptureIdle ==
  /\ argStart = 1
  /\ argEnd = 1
  /\ argNext = FALSE
  /\ ci = 0
  /\ cpc = "off"
  /\ captured = <<>>
  /\ keysSent = 0
  /\ actFailed = FALSE
  /\ capturedAtFail = 0

\* an activation failed: the history variables record the first one
NoteFailure ==
  /\ actFailed' = TRUE
  /\ capturedAtFail' = IF actFailed THEN capturedAtFail ELSE Len(captured)

\* step 1 of the loop body: activate_app_window; False -> sys.exit(1)
ActivateWindow ==
  /\ cpc = "activate"
  /\ \/ /\ cpc' = "capture"
        /\ UNCHANGED <<actFailed, capturedAtFail>>
     \/ /\ cpc' = "exit1"
        /\ NoteFailure
  /\ UNCHANGED <<argStart, argEnd, argNext, ci, captured, keysSent>>

\* the loop goes to its next iteration, or ends after the last one
NextIteration ==
  /\ ci' = ci + 1
  /\ cpc' = IF ci + 1 < argEnd - argStart + 1 THEN "activate" ELSE "done"

\* step 3: WindowCapture.capture_window for page i + args.start, then the
\* test `if i < (args.end - args.start) and args.next`
CaptureWindow ==
  /\ cpc = "capture"
  /\ captured' = Append(captured, ci + argStart)
  /\ IF ci < argEnd - argStart /\ argNext
       THEN cpc' = "next" /\ UNCHANGED ci
       ELSE NextIteration
  /\ UNCHANGED <<argStart, argEnd, argNext, keysSent, actFailed, capturedAtFail>>

\* step 5: send_key_applescript activates the window first; when that fails
\* no key is sent; else osascript sends the key, or fails or times out; main
\* only logs a warning when send_key_applescript returns False
SendNextKey ==
  /\ cpc = "next"
  /\ \/ /\ NoteFailure
        /\ UNCHANGED keysSent
        /\ NextIteration
     \/ /\ keysSent' \in {keysSent, keysSent + 1}
        /\ NextIteration
        /\ UNCHANGED <<actFailed, capturedAtFail>>
  /\ UNCHANGED <<argStart, argEnd, argNext, captured>>

(* ================================================================== *)
(*                        Specifications                               *)
(* ================================================================== *)

InitWorker ==
  /\ CaptureIdle
  /\ SettingsIdle
  /\ ExtractIdle
  /\ DirIdle
  /\ RunIdle
  /\ \E p \in ParamSets : WorkerInit(p)
  /\ GuiInit
  /\ MergeIdle
  /\ LauncherIdle

NextWorker ==
  \/ (RunBegin /\ UNCHANGED otherThanWorker)
  \/ (RunCheck /\ UNCHANGED otherThanWorker)
  \/ (CheckPauseLock /\ UNCHANGED otherThanWorker)
  \/ (CheckPauseRead /\ UNCHANGED otherThanWorker)
  \/ (CheckPauseSleep /\ UNCHANGED otherThanWorker)
  \/ (CheckStopLock /\ UNCHANGED otherThanWorker)
  \/ (CheckStopRead /\ UNCHANGED otherThanWorker)
  \/ (Spawn /\ UNCHANGED otherThanWorker)
  \/ (AppendProcess /\ UNCHANGED otherThanWorker)
  \/ (Communicate /\ UNCHANGED otherThanWorker)
  \/ (Docx /\ UNCHANGED otherThanWorker)
  \/ (Finish /\ UNCHANGED otherThanWorker)
  \/ (ProcExit /\ UNCHANGED otherThanWorker)
  \/ (TogglePause /\ UNCHANGED otherThanWorker)
  \/ (ToggleSet /\ UNCHANGED otherThanWorker)
  \/ (StopLock /\ UNCHANGED otherThanWorker)
  \/ (StopSet /\ UNCHANGED otherThanWorker)
  \/ (CleanupPoll /\ UNCHANGED otherThanWorker)
  \/ (CleanupWait /\ UNCHANGED otherThanWorker)
  \/ (ThreadWait /\ UNCHANGED otherThanWorker)
  \/ (OnWorkflowFinished /\ UNCHANGED otherThanWorker)

SpecWorker == InitWorker /\ [][NextWorker]_vars

InitMerge ==
  /\ CaptureIdle
  /\ SettingsIdle
  /\ ExtractIdle
  /\ DirIdle
  /\ RunIdle
  /\ MergeInit
  /\ WorkerIdle
  /\ LauncherIdle

NextMerge ==
  \/ (MergePdfsStart /\ UNCHANGED otherThanMerge)
  \/ (TryAppend /\ UNCHANGED otherThanMerge)
  \/ (FindImage /\ UNCHANGED otherThanMerge)
  \/ (Backup /\ UNCHANGED otherThanMerge)
  \/ (Regenerate /\ UNCHANGED otherThanMerge)
  \/ (Verify /\ UNCHANGED otherThanMerge)
  \/ (AfterRepair /\ UNCHANGED otherThanMerge)
  \/ (WriteMerged /\ UNCHANGED otherThanMerge)
  \/ (merge_text_files /\ UNCHANGED otherThanMerge)

SpecMerge == InitMerge /\ [][NextMerge]_vars

InitRepair ==
  /\ CaptureIdle
  /\ SettingsIdle
  /\ ExtractIdle
  /\ DirIdle
  /\ RunIdle
  /\ RepairInit
  /\ WorkerIdle
  /\ LauncherIdle

NextRepair ==
  \/ (FindImage /\ UNCHANGED otherThanMerge)
  \/ (Backup /\ UNCHANGED otherThanMerge)
  \/ (Regenerate /\ UNCHANGED otherThanMerge)
  \/ (Verify /\ UNCHANGED otherThanMerge)
  \/ (RepairAgain /\ UNCHANGED otherThanMerge)

SpecRepair == InitRepair /\ [][NextRepair]_vars

InitText ==
  /\ CaptureIdle
  /\ SettingsIdle
  /\ ExtractIdle
  /\ DirIdle
  /\ RunIdle
  /\ TextInit
  /\ WorkerIdle
  /\ LauncherIdle

NextText == merge_text_files /\ UNCHANGED otherThanMerge

SpecText == InitText /\ [][NextText]_vars

InitGui ==
  /\ CaptureIdle
  /\ SettingsIdle
  /\ ExtractIdle
  /\ DirIdle
  /\ LauncherInit
  /\ WorkerIdle
  /\ MergeIdle
  /\ RunIdle

NextGui ==
  \/ (EditPages /\ UNCHANGED otherThanGui)
  \/ (start_workflow /\ UNCHANGED otherThanGui)
  \/ (WorkerEmitsFinished /\ UNCHANGED otherThanGui)
  \/ (WorkerReturns /\ UNCHANGED otherThanGui)
  \/ (on_workflow_finished /\ UNCHANGED otherThanGui)
  \/ (toggle_pause /\ UNCHANGED otherThanGui)
  \/ (stop_workflow /\ UNCHANGED otherThanGui)

SpecGui == InitGui /\ [][NextGui]_vars

InitRun ==
  /\ CaptureIdle
  /\ SettingsIdle
  /\ ExtractIdle
  /\ DirIdle
  /\ RunInit
  /\ WorkerIdle
  /\ MergeIdle
  /\ LauncherIdle

NextRun ==
  \/ (CaptureStep /\ UNCHANGED otherThanRun)
  \/ (ConvertStep /\ UNCHANGED otherThanRun)
  \/ (BasicStep /\ UNCHANGED otherThanRun)
  \/ (NewneekStep /\ UNCHANGED otherThanRun)
  \/ (RunReturns /\ UNCHANGED otherThanRun)
  \/ (RunAgain /\ UNCHANGED otherThanRun)

SpecRun == InitRun /\ [][NextRun]_vars

InitDir ==
  /\ CaptureIdle
  /\ SettingsIdle
  /\ ExtractIdle
  /\ DirInit
  /\ WorkerIdle
  /\ MergeIdle
  /\ LauncherIdle
  /\ RunIdle

NextDir ==
  \/ (DirCheck /\ UNCHANGED otherThanDir)
  \/ (PageStep /\ UNCHANGED otherThanDir)
  \/ (DirMergePdfs /\ UNCHANGED otherThanDir)
  \/ (DirMergeText /\ UNCHANGED otherThanDir)
  \/ (DirAgain /\ UNCHANGED otherThanDir)

SpecDir == InitDir /\ [][NextDir]_vars

InitExtract ==
  /\ CaptureIdle
  /\ SettingsIdle
  /\ ExtractInit
  /\ WorkerIdle
  /\ MergeIdle
  /\ LauncherIdle
  /\ RunIdle
  /\ DirIdle

NextExtract ==
  \/ (Upload /\ UNCHANGED otherThanExtract)
  \/ (Generate /\ UNCHANGED otherThanExtract)
  \/ (OpenOutput /\ UNCHANGED otherThanExtract)
  \/ (StreamStep /\ UNCHANGED otherThanExtract)
  \/ (Salvage /\ UNCHANGED otherThanExtract)
  \/ (Mark /\ UNCHANGED otherThanExtract)
  \/ (Delete /\ UNCHANGED otherThanExtract)

SpecExtract == InitExtract /\ [][NextExtract]_vars

InitSettings ==
  /\ CaptureIdle
  /\ SettingsInit
  /\ WorkerIdle
  /\ MergeIdle
  /\ LauncherIdle
  /\ RunIdle
  /\ DirIdle
  /\ ExtractIdle

NextSettings ==
  \/ (EditField /\ UNCHANGED otherThanSettings)
  \/ (save_settings /\ UNCHANGED otherThanSettings)
  \/ (FileChanges /\ UNCHANGED otherThanSettings)
  \/ (load_settings /\ UNCHANGED otherThanSettings)

SpecSettings == InitSettings /\ [][NextSettings]_vars

InitCapture ==
  /\ CaptureInit
  /\ WorkerIdle
  /\ MergeIdle
  /\ LauncherIdle
  /\ RunIdle
  /\ DirIdle
  /\ ExtractIdle
  /\ SettingsIdle

NextCapture ==
  \/ (ActivateWindow /\ UNCHANGED otherThanCapture)
  \/ (CaptureWindow /\ UNCHANGED otherThanCapture)
  \/ (SendNextKey /\ UNCHANGED otherThanCapture)

SpecCapture == InitCapture /\ [][NextCapture]_vars

(* ================================================================== *)
(*                 Claims about the Worker (SpecWorker)                *)
(* ================================================================== *)

\* the lifecycle state of the worker, read off the position of its thread
\* and the signals it has emitted
WState ==
  IF sig.finished > 0 THEN "Finished"
  ELSE IF sig.error > 0 THEN "Errored"
  ELSE IF wpc \in EndPcs THEN "Stopped"
  ELSE IF wpc = "idle" THEN "Idle"
  ELSE IF wpc \in PausedPcs THEN "Paused"
  ELSE "Running"

TerminalStates == {"Finished", "Stopped", "Errored"}

NoProcessRunning == \A s \in ProcStages : proc[s] # "running"

\* C1: if stop() is issued while the worker waits in _check_pause, the worker
\* launches no external process afterwards, no spawned process is left running
\* once stop() has returned, and run() ends without finished_signal or
\* error_signal (the Stopped state).
C1_StopWhilePausedStops ==
  stopPaused =>
    /\ afterStop = {}
    /\ stopReturned => NoProcessRunning
    /\ wpc \in EndPcs => WState = "Stopped"

\* C7: once stop() has returned, no external process spawned by the worker is
\* still running.
C7_NoProcessRunsAfterStop == stopReturned => NoProcessRunning

\* C8: once stop() has been issued, the worker starts no further pipeline stage.
C8_NoStageAfterStop == afterStop = {}

LifecycleStep(a, b) ==
  \/ a = b
  \/ a = "Idle" /\ b = "Running"
  \/ a = "Running" /\ b = "Paused"
  \/ a = "Paused" /\ b = "Running"
  \/ a \in {"Running", "Paused"} /\ b \in TerminalStates

\* C9 as stated: only the lifecycle transitions Idle -> Running, Running <->
\* Paused, Running or Paused -> Finished | Stopped | Errored are taken, and a
\* worker in a terminal state starts no stage and emits no signal any more.
C9_TerminalEmitsNothing ==
  [][/\ LifecycleStep(WState, WState')
     /\ WState \in TerminalStates => (started' = started /\ sig' = sig)]_vars

\* C9 as amended: the same transitions; a worker in a terminal state starts no
\* stage and emits neither finished_signal nor error_signal any more (pause(),
\* resume() and stop() still emit their own log_signal).
C9_TerminalIsFinal ==
  [][/\ LifecycleStep(WState, WState')
     /\ WState \in TerminalStates =>
          /\ started' = started
          /\ sig'.finished = sig.finished
          /\ sig'.error = sig.error]_vars

\* C9 witness: pause(), resume() or stop() has run on a worker that had
\* already reached a terminal state.
C9_LateCallOnEndedWorker == lateCall /\ WState \in TerminalStates

\* the shared objects the next step of the worker thread reads or writes
WAccess ==
  IF wpc \in {"run_read", "cpw_read2"} THEN {"_is_running"}
  ELSE IF wpc \in {"cp_read", "cpw_read1"} THEN {"_is_paused"}
  ELSE IF wpc = "append" THEN {"processes"}
  ELSE {}

\* the shared objects the next step of the GUI thread reads or writes
GAccess ==
  IF gpc = "toggle_set" THEN {"_is_paused"}
  ELSE IF gpc = "stop_set" THEN {"_is_running", "_is_paused"}
  ELSE IF gpc = "cleanup" THEN {"processes"}
  ELSE {}

\* C10: no object is about to be read or written by both threads at once
\* (what the mutex guarantees for every object that is accessed only under it).
C10_NoUnguardedSharedAccess == WAccess \cap GAccess = {}

(* ================================================================== *)
(*         Claims about the merge (SpecMerge, SpecText)                *)
(* ================================================================== *)

\* C2: repair_corrupted_pdf replaces the original PDF only by a regenerated PDF
\* that passed check_pdf_integrity; whenever it returns False, the file at the
\* page's PDF path is the one that was there when it was called.
C2_FailedRepairRestoresOriginal ==
  mpc = "repair_ret" =>
    /\ repairRet = "True" => check_pdf_integrity(pdf[Cur])
    /\ repairRet = "False" => pdf[Cur] = entry

\* the page can be appended: its PDF opens and appends as it is, or its image
\* exists and tesseract exits 0 leaving an appendable PDF and the text file
CanAppend(n) ==
  \/ Appendable(pdf0[n])
  \/ /\ image[n] = "yes"
     /\ ocr[n] = [raised |-> FALSE, pdfq |-> "good", txt |-> TRUE]

CannotAppend(n) == ~CanAppend(n)

\* C3 as stated: when merge_pdfs returns, the appended pages are exactly the
\* pages that can be appended (directly or after repair), the others are
\* exactly failed_files, and if at least one page can be appended the merged
\* PDF is written with exactly the appended pages and its path is returned.
C3_MergeSurvivesPageFailures ==
  mpc = "pdf_ret" =>
    /\ merger = SelectSeq(order, CanAppend)
    /\ failed_files = SelectSeq(order, CannotAppend)
    /\ SelectSeq(order, CanAppend) # <<>> =>
          /\ result = "path"
          /\ mergedPdf = [state |-> "ok", pages |-> SelectSeq(order, CanAppend)]

\* C3 as amended: the same, unless the write of the merged file itself
\* raises; then merge_pdfs returns None. A failure of any subset of pages never
\* ends the loop over the remaining pages.
C3_MergeSurvivesUnlessWriteFails ==
  mpc = "pdf_ret" =>
    /\ merger = SelectSeq(order, CanAppend)
    /\ failed_files = SelectSeq(order, CannotAppend)
    /\ (SelectSeq(order, CanAppend) # <<>> /\ ~writeFailed) =>
          /\ result = "path"
          /\ mergedPdf = [state |-> "ok", pages |-> SelectSeq(order, CanAppend)]
    /\ writeFailed => result = "None"

\* C3 witness: merge_pdfs returned the path of a merged PDF although a page
\* failed, and a page behind the failed one was appended.
C3_MergedPastFailedPage ==
  /\ mpc = "pdf_ret"
  /\ result = "path"
  /\ \E i, j \in 1..Len(order) :
       /\ i < j
       /\ \E k \in 1..Len(failed_files) : failed_files[k] = order[i]
       /\ \E k \in 1..Len(mergedPdf.pages) : mergedPdf.pages[k] = order[j]

\* the number embedded in a page name
PageNumber(n) ==
  CASE n = <<"p", "1">> -> 1
    [] n = <<"p", "2">> -> 2
    [] n = <<"p", "9">> -> 9
    [] n = <<"p", "1", "0">> -> 10

NaturalOrder(s) ==
  \A i, j \in 1..Len(s) : i < j => PageNumber(s[i]) < PageNumber(s[j])

TxtNames == [i \in 1..Len(mergedTxt) |-> mergedTxt[i].name]

\* C4: whatever the order of the input list, merge_pdfs and merge_text_files
\* go through all its pages by increasing embedded number (p10 after p9 and
\* after p2), and the merged PDF and the merged text hold their pages in that
\* order.
C4_MergedInNaturalOrder ==
  /\ mpc \in {"loop", "write", "pdf_ret", "done"} =>
        /\ Len(order) = Len(files)
        /\ {order[i] : i \in 1..Len(order)} = Pages
        /\ NaturalOrder(order)
  /\ NaturalOrder(merger)
  /\ NaturalOrder(mergedPdf.pages)
  /\ NaturalOrder(TxtNames)
  /\ (mpc = "done" /\ ~raised) => TxtNames = order

\* C4 witness: the list p2, p10, p1 has been merged as p1, p2, p10, the PDFs
\* and the text files.
C4_SpecExampleMerged ==
  /\ files = << <<"p", "2">>, <<"p", "1", "0">>, <<"p", "1">> >>
  /\ mpc = "done"
  /\ mergedPdf = [state |-> "ok",
                  pages |-> << <<"p", "1">>, <<"p", "2">>, <<"p", "1", "0">> >>]
  /\ TxtNames = << <<"p", "1">>, <<"p", "2">>, <<"p", "1", "0">> >>

\* what C5 expects merge_text_files to write for a file of content t
C5Expected(t) ==
  IF t = "utf8" THEN "utf8"
  ELSE IF t = "cp949" THEN "cp949"
  ELSE "placeholder"

\* C5: merge_text_files never raises because of an input file: for each
\* file, in order, it has written the UTF-8 content, else the cp949 content,
\* else (file cannot be opened or decoded) the placeholder line.
C5_TextMergeNeverRaises ==
  mpc = "done" =>
    /\ ~raised
    /\ Len(mergedTxt) = Len(order)
    /\ \A i \in 1..Len(mergedTxt) :
         mergedTxt[i] = [name |-> order[i], how |-> C5Expected(txt[order[i]])]

\* the premise of the round trip for page c: c is the one corrupt page, its
\* image exists, and the OCR run succeeds with a valid PDF
RoundTrip(c) ==
  /\ c \in Pages
  /\ pdf0[c].q = "bad"
  /\ \A n \in Pages \ {c} : pdf0[n].q = "good"
  /\ image[c] = "yes"
  /\ ocr[c] = [raised |-> FALSE, pdfq |-> "good", txt |-> TRUE]

\* C6: if one page's PDF is corrupt, its image exists and OCR regeneration
\* yields a valid PDF, then when merge_pdfs returns that page is repaired and
\* appended at its natural-order position, there is one entry per input page
\* (in the merger and in the merged PDF written from it), and no .backup file
\* is left.
C6_RepairRoundTrip ==
  \A c \in NamePool :
    (mpc = "pdf_ret" /\ RoundTrip(c)) =>
      /\ repaired_files = <<c>>
      /\ failed_files = <<>>
      /\ merger = order
      /\ NaturalOrder(merger)
      /\ Len(merger) = Len(files)
      /\ pdf[c] = [q |-> "good", gen |-> 1]
      /\ result = "path" => mergedPdf = [state |-> "ok", pages |-> order]
      /\ \A n \in Pages : bak[n] = NoFile /\ txtbak[n] = "none"

\* C6 witness: a merge of three pages given out of order has returned the
\* merged PDF after it repaired the corrupt middle page.
C6_MiddlePageRepaired ==
  /\ mpc = "pdf_ret"
  /\ result = "path"
  /\ Len(files) = 3
  /\ files # order
  /\ RoundTrip(order[2])
  /\ Len(mergedPdf.pages) = 3

\* the place of a stage in the pipeline
StageRank(s) ==
  CASE s = "capture" -> 1 [] s = "pdf" -> 2 [] s = "ocr" -> 3 [] s = "docx" -> 4

StageEnabled(s) == IF s = "docx" THEN params.ocr /\ params.docx ELSE params[s]

\* C12: the stages are started in the order capture, PDF, OCR, DOCX, only
\* enabled ones and none of them skipped; a stage is started only after the
\* process of every stage started before it has exited with return code 0 (so
\* a non-zero exit prevents every later stage), and at most one external
\* process is alive at any time.
C12_StagesInOrderOneAtATime ==
  /\ \A i, j \in 1..Len(started) : i < j => StageRank(started[i]) < StageRank(started[j])
  /\ \A i \in 1..Len(started) :
       /\ StageEnabled(started[i])
       /\ \A s \in ProcStages :
            (StageEnabled(s) /\ StageRank(s) < StageRank(started[i])) =>
              \E k \in 1..Len(started) : k < i /\ started[k] = s
       /\ i < Len(started) => proc[started[i]] = "exit0"
  /\ Cardinality({s \in ProcStages : proc[s] = "running"}) <= 1

\* C12 witness: all four stages have been started, the three processes having
\* exited with 0.
C12_AllFourStagesRan ==
  /\ started = <<"capture", "pdf", "ocr", "docx">>
  /\ \A s \in ProcStages : proc[s] = "exit0"

(* ================================================================== *)
(*            Claims about the GUI's worker threads (SpecGui)          *)
(* ================================================================== *)

\* the threads whose run() has not returned
RunningThreads == {i \in 1..Len(threads) : threads[i] # "ended"}

\* C11: whatever Run, Pause/Resume and Stop actions are taken, at most one
\* worker thread is running, and a new Worker is created and started only when
\* no Worker created before is still running.
C11_AtMostOneWorkerThread == Cardinality(RunningThreads) <= 1

\* C11 witness: a second Worker runs after the first one has ended.
C11_SecondWorkerStarted ==
  /\ Len(threads) >= 2
  /\ threads[1] = "ended"
  /\ threads[Len(threads)] = "running"

(* ================================================================== *)
(*               Claims about run.py (SpecRun)                         *)
(* ================================================================== *)

\* C13: if a stage of the pipeline failed (its process exited with a non-zero
\* status), run.py exits with a non-zero status.
C13_FailedStageFailsRun ==
  (rpc = "exited" /\ \E st \in RunStages : outcome[st] = "fail") => rExit = "nonzero"

\* C14: a run of run.py that follows a run in which every stage succeeded
\* (same title, same page range, also start = end) invokes no stage.
C14_RerunInvokesNothing ==
  prevClean => \A st \in RunStages : skipped[st] # "no"

\* C15: run.py skips a stage exactly when the stage's expected output files
\* were all there; the capture stage exactly when the screenshot of every page
\* of [start, end] was there.
C15_SkipIffOutputsPresent ==
  \A st \in RunStages :
    skipped[st] # "unset" => ((skipped[st] = "yes") <=> present[st])

(* ================================================================== *)
(*        Claims about the directory run of img_to_pdf.py (SpecDir)    *)
(* ================================================================== *)

\* C16: a directory run that finds both merged files runs no OCR, no repair
\* and no merge and creates, modifies or deletes no file; a run that finds one
\* of them missing is not skipped: it goes through the pages and, when it
\* returns with at least one image in the directory, it has called merge_pdfs
\* and merge_text_files.
C16_MergedDirectoryIsNoOp ==
  /\ (dir0.mergedPdf /\ dir0.mergedTxt) =>
        /\ ocrRuns = 0 /\ repairs = 0 /\ mergeCalls = 0 /\ textCalls = 0
        /\ fileOps = 0
        /\ DirFiles = dir0
        /\ dpc \in {"check", "returned"}
  /\ (dpc = "returned" /\ ~(dir0.mergedPdf /\ dir0.mergedTxt) /\ dImages # {}) =>
        /\ mergeCalls = 1
        /\ textCalls = 1
        /\ dTodo = {}

\* C16 witness: a re-run on a directory with images that already held both
\* merged files has returned.
C16_RerunSkipped ==
  /\ dRuns = 2
  /\ dpc = "returned"
  /\ dir0.mergedPdf /\ dir0.mergedTxt
  /\ dImages # {}

(* ================================================================== *)
(*        Claims about TextExtractor.process_file (SpecExtract)        *)
(* ================================================================== *)

\* the output file holds x
Holds(x) == out # "none" /\ \E i \in 1..Len(out) : out[i] = x

HoldsContent == Holds("text") \/ Holds("salvaged")

\* C17: after the write phase of process_file the error marker is in the output
\* file exactly when it holds no content from the stream or the salvage, so the
\* file is never empty and never holds both; and the marker is written after a
\* JSON parsing error only if the salvage over the raw response was tried.
C17_ContentOrMarker ==
  epc \in {"delete", "returned"} =>
    /\ Holds("marker") <=> ~HoldsContent
    /\ out # <<>>
    /\ ~(Holds("marker") /\ HoldsContent)
    /\ (jsonErr /\ Holds("marker")) => salvageTried

\* C18: when process_file has ended, by returning or by an exception, a file
\* it uploaded to the API has been deleted again.
C18_UploadedFileDeleted ==
  epc \in {"returned", "raised"} => ~remote

(* ================================================================== *)
(*              Claims about the settings (SpecSettings)               *)
(* ================================================================== *)

\* the key of field f is in a settings file that parses
InFile(f) == settingsFile.st = "object" /\ f \in settingsFile.keys

\* C19: right after load_settings every field whose key is in the settings file
\* holds the value it had when the file was saved; a field whose key is
\* missing from the file holds its default while the others keep the loaded
\* values; and with a missing or unparsable file every field holds its default.
C19_SettingsRoundTrip ==
  lastOp = "load" =>
    \A f \in Fields : widget[f] = IF InFile(f) THEN snapshot[f] ELSE Defaults[f]

\* C19 happens: a load has run on a saved file from which one key is missing;
\* the missing key's field was saved with another value than its default, and
\* a field whose key is in the file was saved with another value than its default.
C19_LoadedWithMissingKey ==
  /\ lastOp = "load"
  /\ settingsFile.st = "object"
  /\ \E f \in Fields : f \notin settingsFile.keys /\ snapshot[f] # Defaults[f]
  /\ \E f \in Fields : f \in settingsFile.keys /\ snapshot[f] # Defaults[f]

(* ================================================================== *)
(*              Claims about the capture loop (SpecCapture)            *)
(* ================================================================== *)

\* the pages captured so far are start, start+1, ... in increasing order
CapturedInOrder == \A k \in 1..Len(captured) : captured[k] = argStart + k - 1

\* C20: the capture loop captures the pages start..end in increasing order once
\* each; when it has ended normally it captured all of them and sent the
\* next-page key end - start times; and once an activation of the window has
\* failed, the program has exited with status 1 and captures no page after it.
C20_CaptureLoop ==
  /\ CapturedInOrder
  /\ cpc = "done" => (Len(captured) = argEnd - argStart + 1 /\ keysSent = argEnd - argStart)
  /\ actFailed => (cpc = "exit1" /\ Len(captured) = capturedAtFail)

(* ================================================================== *)
(*          Further claims about the Worker (SpecWorker)               *)
(* ================================================================== *)

\* the processes cleanup_processes sends terminate() in this step
NewlyTerminated == termSent' \ termSent

\* cleanup_processes returns in this step
CleanupReturns == ~stopReturned /\ stopReturned'

\* C21: cleanup_processes sends terminate only to a process that is running;
\* kill is sent only after terminate and leaves a killed process, so a process
\* that exited before or within the grace window is never killed; and when
\* cleanup_processes returns, every process of the list has exited unless its
\* own cleanup raised an error.
C21_CleanupProcesses ==
  /\ [](killSent \subseteq termSent /\ \A s \in killSent : proc[s] = "killed")
  /\ [][\A s \in NewlyTerminated : proc[s] = "running"]_vars
  /\ [][CleanupReturns =>
          \A i \in 1..Len(processes) :
            proc[processes[i]] # "running" \/ processes[i] \in cleanErr]_vars

\* C21 happens: cleanup_processes has returned after an error at one process,
\* a kill of another, and a third that was not running when its turn came.
C21_CleanedUpPastAnError ==
  /\ stopReturned
  /\ cleanErr # {}
  /\ killSent # {}
  /\ \E i \in 1..Len(processes) : processes[i] \notin termSent \cup cleanErr

\* an external process is started in this step
ProcessLaunched == \E s \in ProcStages : proc[s] = "none" /\ proc'[s] = "running"

\* C22: while the worker is paused (pause() has set _is_paused and neither
\* resume() nor stop() has cleared it) the worker starts no external process.
C22_NoLaunchWhilePaused == [][ProcessLaunched => ~is_paused]_vars

\* _check_pause returns True in this step
CheckPauseReturnsTrue == wpc \in {"cp_read", "cpw_read1"} /\ wpc' = PauseClearedPc

\* C23: when stop() was issued while the worker was waiting in _check_pause,
\* _check_pause does not return True.
C23_StoppedWaitNeverReturnsTrue == [][stopPaused => ~CheckPauseReturnsTrue]_vars

\* the worker's run has ended, the GUI thread is in no handler and no
\* finished_signal is waiting for its slot: nothing but the user acts from here
RunOverAndQuiet == wpc \in EndPcs /\ gpc = "idle" /\ ~pendingFinished

\* C29: when the worker's run has ended and every queued signal has been
\* handled, the GUI is idle again: workflow_running and workflow_paused are
\* False (update_ui_state enables the Run button exactly when workflow_running
\* is False).
C29_GuiIdleAfterRunEnds ==
  RunOverAndQuiet => (~workflow_running /\ ~workflow_paused)

\* error_signal is emitted in this step
ErrorEmitted == sig'.error > sig.error

\* the process of the stage run() waits for has exited with a non-zero code
StageFailed ==
  wpc = "communicate" /\ proc[stage] \in {"exitErr", "signaled", "killed"}

\* C30: in one run finished_signal and error_signal are each emitted at most
\* once and never both; finished_signal is emitted only if the process of
\* every enabled stage exited with return code 0; and error_signal is emitted
\* only when a stage exited non-zero or an exception was raised in run() (by
\* Popen).
C30_SignalsOfOneRun ==
  /\ [](sig.finished <= 1 /\ sig.error <= 1 /\ sig.finished + sig.error <= 1)
  /\ [](sig.finished = 1 => \A s \in ProcStages : params[s] => proc[s] = "exit0")
  /\ [][ErrorEmitted => (StageFailed \/ wpc = "spawn")]_vars

\* C30 happens: a run with the three process stages enabled has emitted
\* finished_signal.
C30_FinishedAfterThreeStages ==
  /\ sig.finished = 1
  /\ params.capture /\ params.pdf /\ params.ocr

(* ================================================================== *)
(*             Further claims about the merge (SpecMerge)              *)
(* ================================================================== *)

\* the elements of a sequence
Range(q) == {q[i] : i \in 1..Len(q)}

\* the loop of merge_pdfs has ended
AfterMergeLoop == mpc \in {"write", "pdf_ret", "done"}

\* C24: after the loop of merge_pdfs every input PDF is counted exactly once,
\* as a success (appended to the merger) or in failed_files, so that
\* successful_merges + len(failed_files) is the number of input files;
\* repaired_files holds only pages counted as successes; and with
\* successful_merges = 0 merge_pdfs returns None and writes no merged file.
C24_MergeBookkeeping ==
  AfterMergeLoop =>
    /\ successful_merges + Len(failed_files) = Len(files)
    /\ successful_merges = Len(merger)
    /\ Range(merger) \cup Range(failed_files) = Pages
    /\ Range(merger) \cap Range(failed_files) = {}
    /\ Range(repaired_files) \subseteq Range(merger)
    /\ (successful_merges = 0 /\ result # "unset") =>
         (result = "None" /\ mergedPdf.state = "none")

\* C24 happens: merge_pdfs has returned after a loop that appended one page
\* directly, one after a repair, and put one into failed_files.
C24_AllThreeKindsCounted ==
  /\ mpc = "pdf_ret"
  /\ Len(failed_files) = 1
  /\ Len(repaired_files) = 1
  /\ successful_merges = 2

(* ================================================================== *)
(*           Further claims about the directory run (SpecDir)          *)
(* ================================================================== *)

\* a per-page output of image i was missing when this run started
OutputMissing(i) == ~dir0.pagePdf[i] \/ ~dir0.pageTxt[i]

\* both merged files were there when this run started: the run is skipped
SkippedRun == dir0.mergedPdf /\ dir0.mergedTxt

\* the images in the order of the sorted list
RECURSIVE Ascending(_)
Ascending(S) ==
  IF S = {} THEN <<>>
  ELSE LET lo == CHOOSE i \in S : \A j \in S : i <= j
       IN <<lo>> \o Ascending(S \ {lo})

OriginalKept(n) == pdf[n] = pdf0[n] \/ bak[n] = pdf0[n]

\* a regenerated PDF that passes check_pdf_integrity is at the path of page n
VerifiedReplacement(n) == pdf[n].gen = 1 /\ check_pdf_integrity(pdf[n])

\* C26: across repeated repair_corrupted_pdf calls on one page, at every point
\* the original PDF is at the PDF path or at the .pdf.backup path, or a
\* regenerated PDF that passes the integrity check is at the PDF path.
C26_OriginalNeverLost ==
  \A n \in Pages : OriginalKept(n) \/ VerifiedReplacement(n)

(* ================================================================== *)
(*      Claims about the two merged files of one run (SpecMerge)       *)
(* ================================================================== *)

\* the pages whose text merge_text_files wrote into the merged text, in order
TextPages == [i \in 1..Len(mergedTxt) |-> mergedTxt[i].name]

\* C27: when merge_pdfs and merge_text_files of one directory run are over,
\* the merged text was produced only if the merged PDF was, and it covers the
\* pages of the merged PDF in the same order (a page left out of the merged
\* PDF is not in the merged text).
C27_MergedFilesCoverSamePages ==
  mpc = "done" =>
    /\ result = "path"
    /\ TextPages = mergedPdf.pages

(* ================================================================== *)
(*                Further claims about run.py (SpecRun)                *)
(* ================================================================== *)

\* the outcomes of a summary stage that did not produce the summary
FailedOutcomes == {"noOutput", "badOutput", "fail"}

\* C28: run.py does not skip a summary stage whose execution in the previous
\* run failed (no API key, an API error in the middle of the stream, an empty
\* response): the re-run executes it again.
C28_FailedSummaryRunsAgain ==
  \A st \in {"basic", "newneek"} :
    prevOutcome[st] \in FailedOutcomes => skipped[st] # "yes"

====
